---- MODULE Spec2Model ----
(***************************************************************************)
(* Model of the react-http router: path matching, route resolution and the *)
(* request dispatcher handleRequest (src/src/router.ts).                    *)
(*                                                                         *)
(* Strings that the router takes apart (URL paths, route patterns) are     *)
(* sequences of one-character strings; strings that are only carried       *)
(* around (JSON text, messages, methods) are TLA+ strings.                 *)
(***************************************************************************)
EXTENDS Integers, Sequences, FiniteSets, TLC

(***************************************************************************)
(* Bounds of the model.                                                    *)
(***************************************************************************)
\* Longest middleware list of a route group.
MaxMw == 2

(***************************************************************************)
(* Character strings.                                                      *)
(***************************************************************************)
RECURSIVE Str(_)
\* The TLA+ string spelled by a sequence of characters.
Str(cs) == IF cs = <<>> THEN "" ELSE Head(cs) \o Str(Tail(cs))

RECURSIVE DropLeadingSlashes(_)
DropLeadingSlashes(s) ==
    IF s # <<>> /\ Head(s) = "/" THEN DropLeadingSlashes(Tail(s)) ELSE s

RECURSIVE DropTrailingSlashes(_)
DropTrailingSlashes(s) ==
    IF s # <<>> /\ s[Len(s)] = "/"
    THEN DropTrailingSlashes(SubSeq(s, 1, Len(s) - 1))
    ELSE s

\* p.replace(/^\/|\/$/g, ""): one slash at each end only.
StripOneSlash(p) ==
    LET q == IF p # <<>> /\ Head(p) = "/" THEN Tail(p) ELSE p
    IN  IF q # <<>> /\ q[Len(q)] = "/" THEN SubSeq(q, 1, Len(q) - 1) ELSE q

\* p.replace(/^\/+|\/+$/g, "")
StripSlashes(p) == DropTrailingSlashes(DropLeadingSlashes(p))

RECURSIVE SplitFrom(_, _, _)
\* s.split("/") continued: cur is the piece being read, s the unread rest.
SplitFrom(s, cur, acc) ==
    IF s = <<>> THEN Append(acc, cur)
    ELSE IF Head(s) = "/" THEN SplitFrom(Tail(s), <<>>, Append(acc, cur))
    ELSE SplitFrom(Tail(s), Append(cur, Head(s)), acc)

\* s.split("/") without the filter: the empty pieces stay.
SegmentsUnfiltered(s) == SplitFrom(s, <<>>, <<>>)

\* s.split("/").filter(Boolean): the non-empty pieces between slashes.
Segments(s) == SelectSeq(SplitFrom(s, <<>>, <<>>), LAMBDA piece : piece # <<>>)

RECURSIVE JoinWithSlash(_)
\* parts.join("/")
JoinWithSlash(parts) ==
    IF parts = <<>> THEN <<>>
    ELSE IF Len(parts) = 1 THEN parts[1]
    ELSE parts[1] \o <<"/">> \o JoinWithSlash(Tail(parts))

\* joinPaths that keeps only its last argument (the prefixes are lost).
joinPathsLast(paths) == <<"/">> \o StripSlashes(paths[Len(paths)])

\* joinPaths(...paths)
joinPaths(paths) ==
    LET stripped == [k \in 1..Len(paths) |-> StripSlashes(paths[k])]
        kept == SelectSeq(stripped, LAMBDA p : p # <<>>)
    IN  <<"/">> \o JoinWithSlash(kept)

(***************************************************************************)
(* parseQueryString                                                        *)
(***************************************************************************)
RECURSIVE SplitOn(_, _, _, _)
\* s.split(sep) continued: cur is the piece being read, s the unread rest.
SplitOn(s, sep, cur, acc) ==
    IF s = <<>> THEN Append(acc, cur)
    ELSE IF Head(s) = sep THEN SplitOn(Tail(s), sep, <<>>, Append(acc, cur))
    ELSE SplitOn(Tail(s), sep, Append(cur, Head(s)), acc)

\* The character a %XX escape stands for, "" when the byte cannot start a
\* character (a continuation byte of UTF-8 on its own).
Unescape(hi, lo) ==
    CASE hi = "4" /\ lo = "4" -> "D"
      [] hi = "4" /\ lo = "a" -> "J"
      [] OTHER -> ""

HexDigits == {"4", "a"}

RECURSIVE decodeURIComponent(_)
\* decodeURIComponent(s): the text with its escapes replaced, or the
\* URIError a malformed escape raises.
decodeURIComponent(s) ==
    IF s = <<>> THEN [threw |-> FALSE, text |-> ""]
    ELSE IF Head(s) # "%"
    THEN LET rest == decodeURIComponent(Tail(s))
         IN  IF rest.threw THEN rest
             ELSE [threw |-> FALSE, text |-> Head(s) \o rest.text]
    ELSE IF Len(s) < 3 \/ s[2] \notin HexDigits \/ s[3] \notin HexDigits
              \/ Unescape(s[2], s[3]) = ""
    THEN [threw |-> TRUE, text |-> "URI malformed"]
    ELSE LET rest == decodeURIComponent(SubSeq(s, 4, Len(s)))
         IN  IF rest.threw THEN rest
             ELSE [threw |-> FALSE, text |-> Unescape(s[2], s[3]) \o rest.text]

\* {} as the query
EmptyQuery == [name \in {} |-> ""]

\* The value as everything behind the first "=".
ValueOfRest(pair) ==
    LET pieces == SplitOn(pair, "=", <<>>, <<>>)
    IN  SubSeq(pair, Len(pieces[1]) + 2, Len(pair))

\* const [key, value] = pair.split("=") : the second piece, or undefined
\* (here <<>>, which the code treats as it treats "").
KeyOf(pair) == SplitOn(pair, "=", <<>>, <<>>)[1]
ValueOf(pair) ==
    LET pieces == SplitOn(pair, "=", <<>>, <<>>)
    IN  IF Len(pieces) >= 2 THEN pieces[2] ELSE <<>>

RECURSIVE QueryFrom(_, _, _)
\* The for loop of parseQueryString from pair k on, with the query so far.
QueryFrom(pairs, k, query) ==
    IF k > Len(pairs) THEN [threw |-> FALSE, query |-> query]
    ELSE LET key == KeyOf(pairs[k])
             value == ValueOf(pairs[k])
         IN  IF key = <<>> THEN QueryFrom(pairs, k + 1, query)
             ELSE LET dk == decodeURIComponent(key)
                      dv == IF value # <<>> THEN decodeURIComponent(value)
                            ELSE [threw |-> FALSE, text |-> ""]
                  IN  IF dk.threw \/ dv.threw
                      THEN [threw |-> TRUE, query |-> EmptyQuery]
                      ELSE QueryFrom(pairs, k + 1, (dk.text :> dv.text) @@ query)

parseQueryString(queryString) ==
    IF queryString = <<>> THEN [threw |-> FALSE, query |-> EmptyQuery]
    ELSE QueryFrom(SplitOn(queryString, "&", <<>>, <<>>), 1, EmptyQuery)

(***************************************************************************)
(* matchPath                                                               *)
(***************************************************************************)
\* {} as a Record<string, string>
EmptyParams == [name \in {} |-> ""]

RECURSIVE MatchFromFirstWins(_, _, _, _)
\* The loop of matchPath keeping the first value bound to a name.
MatchFromFirstWins(patternParts, pathParts, i, params) ==
    IF i > Len(patternParts) THEN [match |-> TRUE, params |-> params]
    ELSE IF patternParts[i] # <<>> /\ Head(patternParts[i]) = ":"
         THEN MatchFromFirstWins(patternParts, pathParts, i + 1,
                  params @@ (Str(Tail(patternParts[i])) :> Str(pathParts[i])))
         ELSE IF patternParts[i] # pathParts[i]
              THEN [match |-> FALSE, params |-> params]
              ELSE MatchFromFirstWins(patternParts, pathParts, i + 1, params)

RECURSIVE MatchFrom(_, _, _, _)
\* The for loop of matchPath from position i on, with the params bound so far.
MatchFrom(patternParts, pathParts, i, params) ==
    IF i > Len(patternParts) THEN [match |-> TRUE, params |-> params]
    ELSE IF patternParts[i] # <<>> /\ Head(patternParts[i]) = ":"
         THEN MatchFrom(patternParts, pathParts, i + 1,
                        (Str(Tail(patternParts[i])) :> Str(pathParts[i])) @@ params)
         ELSE IF patternParts[i] # pathParts[i]
              THEN [match |-> FALSE, params |-> params]
              ELSE MatchFrom(patternParts, pathParts, i + 1, params)

\* matchPath that lets the path go on after the pattern.
matchPathPrefix(pattern, path) ==
    LET patternParts == Segments(pattern)
        pathParts == Segments(path)
    IN  IF Len(patternParts) > Len(pathParts)
        THEN [match |-> FALSE, params |-> EmptyParams]
        ELSE MatchFrom(patternParts, pathParts, 1, EmptyParams)

matchPath(pattern, path) ==
    LET patternParts == Segments(pattern)
        pathParts == Segments(path)
    IN  IF Len(patternParts) # Len(pathParts)
        THEN [match |-> FALSE, params |-> EmptyParams]
        ELSE MatchFrom(patternParts, pathParts, 1, EmptyParams)

(***************************************************************************)
(* The route tree and findRoute                                            *)
(***************************************************************************)
\* Nodes have the fields of RouteNode and MethodNode together; a field a
\* node kind does not have is empty (a method node without path: <<>>).
RouteNode(path, middlewares, children) ==
    [type |-> "route", path |-> path, middlewares |-> middlewares,
     children |-> children, method |-> "", handler |-> ""]

MethodNode(method, path, handler) ==
    [type |-> "method", path |-> path, middlewares |-> <<>>,
     children |-> <<>>, method |-> method, handler |-> handler]

ServerNode(middlewares, children) ==
    [type |-> "server", path |-> <<>>, middlewares |-> middlewares,
     children |-> children, method |-> "", handler |-> ""]

\* findRoute's null
NoMatch == [found |-> FALSE, handler |-> "", params |-> EmptyParams,
            middlewares |-> <<>>]

MatchedRoute(node, params, middlewares) ==
    [found |-> TRUE, handler |-> node.handler, params |-> params,
     middlewares |-> middlewares]

\* The test of a method node without the comparison of the methods.
MatchMethodNodeAnyMethod(methodNode, method, prefix, path, middlewares) ==
    LET checkPath == IF methodNode.path # <<>>
                     THEN joinPaths(<<prefix, methodNode.path>>)
                     ELSE prefix
        m == matchPath(checkPath, path)
    IN  IF m.match THEN MatchedRoute(methodNode, m.params, middlewares)
        ELSE NoMatch

\* The test of one method node against the prefix it hangs under.
MatchMethodNode(methodNode, method, prefix, path, middlewares) ==
    IF methodNode.method = method
    THEN LET checkPath == IF methodNode.path # <<>>
                          THEN joinPaths(<<prefix, methodNode.path>>)
                          ELSE prefix
             m == matchPath(checkPath, path)
         IN  IF m.match THEN MatchedRoute(methodNode, m.params, middlewares)
             ELSE NoMatch
    ELSE NoMatch

\* findRoute without its first loop: the endpoints of a group are only tested
\* in their turn among its children.
DirectMethodsSkipped(children, method, fullPath, path, middlewares) == NoMatch

RECURSIVE DirectMethods(_, _, _, _, _)
\* The inner loop of findRoute over the children of a route node.
DirectMethods(children, method, fullPath, path, middlewares) ==
    IF children = <<>> THEN NoMatch
    ELSE LET child == Head(children)
             r == IF child.type = "method"
                  THEN MatchMethodNode(child, method, fullPath, path, middlewares)
                  ELSE NoMatch
         IN  IF r.found THEN r
             ELSE DirectMethods(Tail(children), method, fullPath, path, middlewares)

\* The group's own middleware before that of its ancestors.
AccumulateInnerFirst(middlewares, own) == own \o middlewares

\* The group's own middleware in place of the list passed down.
AccumulateOwnOnly(middlewares, own) == own

\* [...middlewares, ...(routeNode.middlewares || [])]
Accumulate(middlewares, own) == middlewares \o own

RECURSIVE findRoute(_, _, _, _, _)
findRoute(nodes, method, path, basePath, middlewares) ==
    IF nodes = <<>> THEN NoMatch
    ELSE LET node == Head(nodes)
             fullPath == joinPaths(<<basePath, node.path>>)
             accumulatedMiddlewares == Accumulate(middlewares, node.middlewares)
             r == IF node.type = "route"
                  THEN LET direct == DirectMethods(node.children, method, fullPath,
                                                   path, accumulatedMiddlewares)
                       IN  IF direct.found THEN direct
                           ELSE findRoute(node.children, method, path, fullPath,
                                          accumulatedMiddlewares)
                  ELSE IF node.type = "method"
                  THEN MatchMethodNode(node, method, basePath, path, middlewares)
                  ELSE NoMatch
         IN  IF r.found THEN r
             ELSE findRoute(Tail(nodes), method, path, basePath, middlewares)

(***************************************************************************)
(* Values of the handlers and their JSON text                              *)
(***************************************************************************)
Undefined == [t |-> "undefined"]
JNull == [t |-> "null"]
JStr(s) == [t |-> "string", s |-> s]
JBool(b) == [t |-> "boolean", b |-> b]
JArr(items) == [t |-> "array", items |-> items]
JObj(props) == [t |-> "object", props |-> props]
Prop(k, v) == [k |-> k, v |-> v]
\* new Error(message)
ErrorValue(message) == [t |-> "Error", message |-> message]
\* No error was thrown.
NoError == [t |-> "none"]

RECURSIVE JSONstringify(_)
RECURSIVE StringifyItems(_)
RECURSIVE StringifyProps(_)

\* JSON.stringify on the values above (none of their strings needs escaping).
JSONstringify(v) ==
    CASE v.t = "string" -> "\"" \o v.s \o "\""
      [] v.t = "boolean" -> IF v.b THEN "true" ELSE "false"
      [] v.t = "null" -> "null"
      [] v.t = "array" -> "[" \o StringifyItems(v.items) \o "]"
      [] v.t = "object" -> "{" \o StringifyProps(v.props) \o "}"

StringifyItems(items) ==
    IF items = <<>> THEN ""
    ELSE IF Len(items) = 1 THEN JSONstringify(items[1])
    ELSE JSONstringify(items[1]) \o "," \o StringifyItems(Tail(items))

StringifyProps(props) ==
    IF props = <<>> THEN ""
    ELSE LET first == "\"" \o props[1].k \o "\":" \o JSONstringify(props[1].v)
         IN  IF Len(props) = 1 THEN first
             ELSE first \o "," \o StringifyProps(Tail(props))

(***************************************************************************)
(* The response object (the ServerResponse members the router uses)        *)
(***************************************************************************)
\* A response nothing was written to.
NewResponse ==
    [statusCode |-> 200, contentType |-> "", body |-> "", writableEnded |-> FALSE]

\* res.statusCode = code
SetStatus(r, code) == [r EXCEPT !.statusCode = code]

\* res.setHeader("Content-Type", value)
SetContentType(r, value) == [r EXCEPT !.contentType = value]

\* res.end(data) of http.ServerResponse: the first call finalizes the
\* response, a later one changes nothing.
End(r, data) ==
    IF r.writableEnded THEN r
    ELSE [r EXCEPT !.body = data, !.writableEnded = TRUE]

(***************************************************************************)
(* The functions a tree carries: middlewares and handlers                  *)
(***************************************************************************)
\* A middleware is the sequence of the things it does; it awaits every
\* next() it calls and catches nothing, so that the calls of one request form
\* a stack:
\*   "next"  await next()
\*   "deny"  answer 401 itself: statusCode, Content-Type, res.end(...)
\*   "after" work after the awaited next() (the logger's console.log)
\*   "throw" throw new Error("mw failed")
\*   "wait"  await a promise that never settles
MiddlewareBody(name) ==
    CASE name = "pass" -> <<"next", "after">>
      [] name = "guard" -> <<"deny">>
      [] name = "skip" -> <<>>
      [] name = "thrower" -> <<"throw">>
      [] name = "passThrow" -> <<"next", "throw">>
      [] name = "twice" -> <<"next", "next">>
      [] name = "stall" -> <<"wait">>

MiddlewareNames == {"pass", "guard", "skip", "thrower", "passThrow", "twice"}

\* A handler is what it does to ctx.res ("end": res.end("manual"),
\* "created": statusCode = 201) and how it settles: it returns value, throws
\* value, or returns a promise rejected with value.
HandlerBody(name) ==
    CASE name = "retObj" ->
           [ops |-> <<>>, out |-> "return", value |-> JObj(<<Prop("ok", JBool(TRUE))>>)]
      [] name = "retArr" ->
           [ops |-> <<>>, out |-> "return", value |-> JArr(<<JStr("a"), JNull>>)]
      [] name = "retStr" ->
           [ops |-> <<>>, out |-> "return", value |-> JStr("hi")]
      [] name = "retNull" ->
           [ops |-> <<>>, out |-> "return", value |-> JNull]
      [] name = "retUndef" ->
           [ops |-> <<>>, out |-> "return", value |-> Undefined]
      [] name = "created" ->
           [ops |-> <<"created">>, out |-> "return",
            value |-> JObj(<<Prop("id", JStr("1"))>>)]
      [] name = "endRetObj" ->
           [ops |-> <<"end">>, out |-> "return",
            value |-> JObj(<<Prop("ok", JBool(TRUE))>>)]
      [] name = "throwErr" ->
           [ops |-> <<>>, out |-> "throw", value |-> ErrorValue("boom")]
      [] name = "throwStr" ->
           [ops |-> <<>>, out |-> "throw", value |-> JStr("oops")]
      [] name = "rejectErr" ->
           [ops |-> <<>>, out |-> "reject", value |-> ErrorValue("async boom")]
      [] name = "endThrow" ->
           [ops |-> <<"end">>, out |-> "throw", value |-> ErrorValue("late")]

HandlerNames == {"retObj", "retArr", "retStr", "retNull", "retUndef", "created",
                 "endRetObj", "throwErr", "throwStr", "rejectErr", "endThrow"}

RECURSIVE RunHandlerOps(_, _)
\* The effect of a handler's operations on the response.
RunHandlerOps(ops, r) ==
    IF ops = <<>> THEN r
    ELSE RunHandlerOps(Tail(ops),
                       IF Head(ops) = "end" THEN End(r, "manual")
                       ELSE SetStatus(r, 201))

(***************************************************************************)
(* Trees and requests of the model                                         *)
(***************************************************************************)
RECURSIVE SeqsUpTo(_, _)
\* The sequences over S of length at most n.
SeqsUpTo(S, n) ==
    IF n = 0 THEN {<<>>}
    ELSE LET shorter == SeqsUpTo(S, n - 1)
         IN  shorter \cup {Append(q, x) : q \in {p \in shorter : Len(p) = n - 1}, x \in S}

\* <Server> rootMws
\*   <Route path="/a"> groupMws <Get h/> <Route path="/:id"><Get h/></Route></Route>
\*   <Post path="/b" h/>
\* </Server>
Tree(rootMws, groupMws, h) ==
    ServerNode(rootMws,
      << RouteNode(<<"/", "a">>, groupMws,
           << MethodNode("GET", <<>>, h),
              RouteNode(<<"/", ":", "i", "d">>, <<>>, <<MethodNode("GET", <<>>, h)>>) >>),
         MethodNode("POST", <<"/", "b">>, h) >>)

\* The middleware lists of the root: none, or one that passes on.
RootMiddlewareLists == {<<>>, <<"pass">>}

Trees ==
    { Tree(rootMws, groupMws, h) :
        rootMws \in RootMiddlewareLists,
        groupMws \in SeqsUpTo(MiddlewareNames, MaxMw),
        h \in HandlerNames }

Methods == {"GET", "POST"}
Paths == { <<"/", "a">>, <<"/", "a", "/", "7">>, <<"/", "b">>, <<"/", "z">> }
\* A request whose query string has a malformed escape.
MalformedRequest ==
    [method |-> "GET", path |-> <<"/", "a">>, search |-> <<"%">>, chunks |-> <<>>,
     stream |-> "end"]

\* The requests: method, path and query string of the request line, the
\* chunks of the body (none here) and how the stream finishes: it ends, it
\* fails ("error") or it does neither ("open").
Requests ==
    [method : Methods, path : Paths, search : {<<>>}, chunks : {<<>>},
     stream : {"end"}]
    \cup {MalformedRequest}

(***************************************************************************)
(* parseBody                                                               *)
(***************************************************************************)
\* A number as a JSON value.
JNum(n) == [t |-> "number", n |-> n]

RECURSIVE BufferConcat(_)
\* Buffer.concat(chunks).toString()
BufferConcat(chunks) ==
    IF chunks = <<>> THEN <<>> ELSE Head(chunks) \o BufferConcat(Tail(chunks))

RECURSIVE ParseNumber(_, _)
\* The digits at the front of s, read as a number after the digits n.
ParseNumber(s, n) ==
    IF s # <<>> /\ Head(s) = "1" THEN ParseNumber(Tail(s), 10 * n + 1)
    ELSE [ok |-> TRUE, value |-> JNum(n), rest |-> s]

\* A JSON text that failed to parse.
ParseFailed == [ok |-> FALSE, value |-> Undefined, rest |-> <<>>]

RECURSIVE ParseValue(_)
RECURSIVE ParseItems(_, _)
\* JSON.parse for texts of the digit 1, brackets and commas: the value at
\* the front of s and the rest of s.
ParseValue(s) ==
    IF s = <<>> THEN ParseFailed
    ELSE IF Head(s) = "1" THEN ParseNumber(s, 0)
    ELSE IF Head(s) = "["
    THEN IF Len(s) >= 2 /\ s[2] = "]"
         THEN [ok |-> TRUE, value |-> JArr(<<>>), rest |-> SubSeq(s, 3, Len(s))]
         ELSE ParseItems(Tail(s), <<>>)
    ELSE ParseFailed

\* The items of an array up to its closing bracket, after the items read.
ParseItems(s, items) ==
    LET item == ParseValue(s)
    IN  IF ~item.ok \/ item.rest = <<>> THEN ParseFailed
        ELSE IF Head(item.rest) = "]"
        THEN [ok |-> TRUE, value |-> JArr(Append(items, item.value)),
              rest |-> Tail(item.rest)]
        ELSE IF Head(item.rest) = ","
        THEN ParseItems(Tail(item.rest), Append(items, item.value))
        ELSE ParseFailed

\* JSON.parse(body): the value, or the SyntaxError it throws.
JSONparse(body) ==
    LET r == ParseValue(body)
    IN  IF r.ok /\ r.rest = <<>> THEN [threw |-> FALSE, value |-> r.value]
        ELSE [threw |-> TRUE, value |-> Undefined]

\* A promise rejected instead of resolved.
Rejected == [t |-> "rejected"]

\* The end listener without its try and catch: the SyntaxError of JSON.parse
\* escapes.
OnEndValueUncaught(chunks) ==
    LET body == BufferConcat(chunks)
    IN  IF body = <<>> THEN Undefined
        ELSE IF JSONparse(body).threw THEN Rejected
        ELSE JSONparse(body).value

\* What the end listener of parseBody resolves the promise with.
OnEndValue(chunks) ==
    LET body == BufferConcat(chunks)
    IN  IF body = <<>> THEN Undefined
        ELSE IF JSONparse(body).threw THEN JStr(Str(body))
        ELSE JSONparse(body).value

\* What the error listener of parseBody resolves the promise with.
OnErrorValue == Undefined

\* What the promise of parseBody(r) is resolved with, once the stream of r
\* has ended or failed.
parseBody(r) ==
    IF r.stream = "end" THEN OnEndValue(r.chunks) ELSE OnErrorValue

\* resolve(value) on the promise of parseBody: settled promises stay.
resolve(ret, value) == IF ret = <<>> THEN <<value>> ELSE ret

(***************************************************************************)
(* The declarations (JSX elements) and the tree the reconciler builds      *)
(***************************************************************************)
\* <Server>children</Server>
ServerEl(children) ==
    [type |-> "server", path |-> <<>>, fn |-> "", children |-> children]
\* <Route path=...>children</Route>
RouteEl(path, children) ==
    [type |-> "route", path |-> path, fn |-> "", children |-> children]
\* <Get path=... handler=.../>, path <<>> when the prop is absent
GetEl(path, handler) ==
    [type |-> "get", path |-> path, fn |-> handler, children |-> <<>>]
\* <Post path=... handler=.../>
PostEl(path, handler) ==
    [type |-> "post", path |-> path, fn |-> handler, children |-> <<>>]
\* <Middleware use=.../>
MiddlewareEl(use) ==
    [type |-> "middleware", path |-> <<>>, fn |-> use, children |-> <<>>]

\* type.toUpperCase() of the method elements
toUpperCase(type) ==
    CASE type = "get" -> "GET"
      [] type = "post" -> "POST"
      [] OTHER -> type

\* createInstance(type, props)
createInstance(el) ==
    CASE el.type = "server" -> ServerNode(<<>>, <<>>)
      [] el.type = "route" ->
           RouteNode(IF el.path = <<>> THEN <<"/">> ELSE el.path, <<>>, <<>>)
      [] el.type \in {"get", "post"} ->
           MethodNode(toUpperCase(el.type), el.path, el.fn)
      [] el.type = "middleware" ->
           [type |-> "middleware", path |-> <<>>, middlewares |-> <<>>,
            children |-> <<>>, method |-> "", handler |-> el.fn]

\* appendInitialChild with unshift in place of push: the children end up in
\* the reverse of declaration order.
appendInitialChildFront(parent, child) ==
    IF child.type = "middleware"
    THEN [parent EXCEPT !.middlewares = <<child.handler>> \o @]
    ELSE [parent EXCEPT !.children = <<child>> \o @]

\* appendInitialChild(parent, child)
appendInitialChild(parent, child) ==
    IF child.type = "middleware"
    THEN [parent EXCEPT !.middlewares = Append(@, child.handler)]
    ELSE [parent EXCEPT !.children = Append(@, child)]

RECURSIVE Render(_)
RECURSIVE RenderChildren(_, _)
\* The instance of an element: its children are rendered and appended in
\* declaration order.
Render(el) == RenderChildren(createInstance(el), el.children)

RenderChildren(instance, els) ==
    IF els = <<>> THEN instance
    ELSE RenderChildren(appendInitialChild(instance, Render(Head(els))), Tail(els))

\* Nested groups with middleware at every level; in group /a the nested
\* group /:id is declared before the direct endpoints, one of which (/a/x)
\* it overlaps, and the guard after them.
AppNested ==
    ServerEl(<<
      MiddlewareEl("pass"),
      RouteEl(<<"/", "a">>, <<
        MiddlewareEl("twice"),
        RouteEl(<<"/", ":", "i", "d">>, <<
          MiddlewareEl("passThrow"),
          GetEl(<<>>, "retObj"),
          RouteEl(<<"b", "/">>, <<GetEl(<<>>, "retArr")>>) >>),
        GetEl(<<>>, "retStr"),
        GetEl(<<"/", "x">>, "retNull"),
        PostEl(<<"x">>, "created"),
        MiddlewareEl("guard") >>),
      RouteEl(<<"/", "b", "/">>, <<
        MiddlewareEl("thrower"),
        GetEl(<<>>, "throwErr"),
        PostEl(<<>>, "throwStr") >>),
      GetEl(<<>>, "retUndef"),
      PostEl(<<"/", "a">>, "endRetObj") >>)

\* Overlapping declarations: a parameter group before a literal sibling
\* group, the same prefix declared twice, a group whose direct endpoints
\* overlap, a root-level endpoint before the group it hides, and nested
\* groups that use the same parameter name.
AppOverlap ==
    ServerEl(<<
      GetEl(<<"/", "u", "/", "x">>, "rejectErr"),
      RouteEl(<<"/", "u">>, <<
        MiddlewareEl("skip"),
        RouteEl(<<"/", ":", "i", "d">>, <<
          MiddlewareEl("pass"),
          GetEl(<<>>, "retObj"),
          RouteEl(<<":", "i", "d">>, <<GetEl(<<>>, "endThrow")>>) >>),
        RouteEl(<<"/", "m", "e">>, <<
          MiddlewareEl("guard"),
          GetEl(<<>>, "retStr"),
          PostEl(<<>>, "created") >>),
        RouteEl(<<"/", "x">>, <<GetEl(<<>>, "retNull")>>) >>),
      RouteEl(<<"/", "u">>, <<
        MiddlewareEl("thrower"),
        PostEl(<<"/", ":", "k">>, "throwErr"),
        PostEl(<<"/", "m", "e">>, "retArr"),
        GetEl(<<>>, "retUndef") >>) >>)

\* The literal group before the parameter group, and a group without path.
AppLiteralFirst ==
    ServerEl(<<
      RouteEl(<<"/", "u">>, <<
        RouteEl(<<"/", "m", "e">>, <<
          MiddlewareEl("twice"),
          GetEl(<<>>, "retStr") >>),
        RouteEl(<<"/", ":", "i", "d">>, <<
          MiddlewareEl("passThrow"),
          GetEl(<<>>, "retObj"),
          PostEl(<<>>, "throwStr") >>) >>),
      RouteEl(<<>>, <<
        MiddlewareEl("guard"),
        GetEl(<<"/", "u", "/", "m", "e">>, "retNull"),
        GetEl(<<"/", "b">>, "throwErr") >>),
      MiddlewareEl("pass") >>)

Apps == {AppNested, AppOverlap, AppLiteralFirst}

\* createServer(<App/>).getTree(): the first instance of the container.
RouteTrees == {Render(app) : app \in Apps}

RouteMethods == {"GET", "POST", "PUT"}
RoutePaths ==
    { <<"/">>, <<"/", "a">>, <<"/", "a", "/">>, <<"/", "a", "/", "x">>,
      <<"/", "a", "/", "7">>, <<"/", "a", "/", "7", "/", "b">>,
      <<"/", "/", "a", "/", "/", "x", "/">>, <<"/", "A">>,
      <<"/", "b">>, <<"/", "b", "/", "7">>,
      <<"/", "u">>, <<"/", "u", "/", "m", "e">>, <<"/", "u", "/", "7">>,
      <<"/", "u", "/", "x">>, <<"/", "u", "/", "7", "/", "8">>,
      <<"/", "u", "/", "M", "e">>, <<"/", "z">> }
RouteRequests ==
    [method : RouteMethods, path : RoutePaths, search : {<<>>}, chunks : {<<>>},
     stream : {"end"}]
    \cup {MalformedRequest}

(***************************************************************************)
(* State: the tree and, per request in flight, one handleRequest call      *)
(***************************************************************************)
VARIABLES
    tree,      \* the server node, built before the first request
    req,       \* req[i]: request i, as it arrives
    res,       \* res[i]: the response object of request i
    pc,        \* pc[i]: where handleRequest(tree, req[i], res[i]) stands
    matched,   \* matched[i]: what findRoute returned
    index,     \* index[i]: the cursor of the next closure (0-based)
    stack,     \* stack[i]: the middleware calls that have not returned yet
    result,    \* result[i]: what the handler returned
    thrown,    \* thrown[i]: the error caught by handleRequest, with
               \*   ended = res.writableEnded when it was caught
    dispEnds,  \* dispEnds[i]: how often handleRequest itself called res.end
    trace,     \* trace[i]: the functions entered and left, in order
    ctx,       \* ctx[i]: the RequestContext, once it is built
    matchArgs, \* the pattern and the path of a direct call of matchPath
    matchRet,  \* what the direct calls of matchPath returned, in order
    joinArgs,  \* three paths for direct calls of joinPaths
    joinRet,   \* what the direct calls of joinPaths returned, in order
    queryArg,  \* the query string of a direct call of parseQueryString
    queryRet,  \* what the direct calls of parseQueryString returned, in order
    bodyStream, \* the events other than data that the request stream of a
               \*   direct call of parseBody has emitted, in order
    chunks,    \* the chunks parseBody has buffered
    bodyRet    \* what the promise of parseBody was resolved with

matchVars == <<matchArgs, matchRet>>
joinVars == <<joinArgs, joinRet>>
queryVars == <<queryArg, queryRet>>
bodyVars == <<bodyStream, chunks, bodyRet>>

\* The variables of the functions called on their own.
callVars == <<matchVars, joinVars, queryVars, bodyVars>>

vars == <<tree, req, res, pc, matched, index, stack, result, thrown, dispEnds, trace,
          ctx, callVars>>

\* No direct call of matchPath is made.
NoMatchCall ==
    /\ matchArgs = [pattern |-> <<>>, path |-> <<>>]
    /\ matchRet = <<>>

\* No direct call of joinPaths is made.
NoJoinCall ==
    /\ joinArgs = <<>>
    /\ joinRet = <<>>

\* No direct call of parseQueryString is made.
NoQueryCall ==
    /\ queryArg = <<>>
    /\ queryRet = <<>>

\* No direct call of parseBody is made.
NoBodyCall ==
    /\ bodyStream = <<"none">>
    /\ chunks = <<>>
    /\ bodyRet = <<>>

\* No function is called on its own.
NoCall == NoMatchCall /\ NoJoinCall /\ NoQueryCall /\ NoBodyCall

Ids == DOMAIN pc

\* ctx before handleRequest has built it.
NoCtx == [params |-> EmptyParams, query |-> EmptyQuery, path |-> <<>>,
          method |-> "", body |-> Undefined, built |-> FALSE]

\* The requests ids, not yet handed to handleRequest, against one of trees.
InitFrom(trees, requests, ids) ==
    /\ tree \in trees
    /\ req \in [ids -> requests]
    /\ res = [i \in ids |-> NewResponse]
    /\ pc = [i \in ids |-> "new"]
    /\ matched = [i \in ids |-> NoMatch]
    /\ index = [i \in ids |-> 0]
    /\ stack = [i \in ids |-> <<>>]
    /\ result = [i \in ids |-> Undefined]
    /\ thrown = [i \in ids |-> NoError]
    /\ dispEnds = [i \in ids |-> 0]
    /\ trace = [i \in ids |-> <<>>]
    /\ ctx = [i \in ids |-> NoCtx]
    /\ NoCall

\* One request, not yet handed to handleRequest.
InitWith(ids) == InitFrom(Trees, Requests, ids)

Init == InitWith({1})

allMiddlewares(i) == matched[i].middlewares

\* The 404 answer without its status code.
NotFoundNoStatus(r, path, method) ==
    End(SetContentType(r, "application/json"),
        JSONstringify(JObj(<< Prop("error", JStr("Not Found")),
                              Prop("path", JStr(Str(path))),
                              Prop("method", JStr(method)) >>)))

\* The 404 answer of handleRequest.
NotFoundResponse(r, path, method) ==
    End(SetContentType(SetStatus(r, 404), "application/json"),
        JSONstringify(JObj(<< Prop("error", JStr("Not Found")),
                              Prop("path", JStr(Str(path))),
                              Prop("method", JStr(method)) >>)))

\* findRoute extending the list it was given in place: the middlewares of
\* the groups on the way are pushed onto the root's list.
TreeAfterFindRoutePush(t, m) ==
    IF m.found THEN [t EXCEPT !.middlewares = m.middlewares] ELSE t

\* The tree after findRoute(t.children, ..., t.middlewares) has returned m:
\* findRoute copies the list it extends ([...middlewares, ...]) and writes
\* to no node, so it is the tree before.
TreeAfterFindRoute(t, m) == t

\* handleRequest up to its first await: parse the query string, which may
\* throw and reject the call; resolve the route; answer 404 and return when
\* there is none, else start reading the body.
HandleRequest(i) ==
    /\ pc[i] = "new"
    /\ LET threw == parseQueryString(req[i].search).threw
           m == findRoute(tree.children, req[i].method, req[i].path, <<>>,
                          tree.middlewares)
           notFound == ~threw /\ ~m.found
       IN  /\ matched' = [matched EXCEPT ![i] = IF threw THEN @ ELSE m]
           /\ tree' = IF threw THEN tree ELSE TreeAfterFindRoute(tree, m)
           /\ res' = [res EXCEPT ![i] =
                        IF notFound
                        THEN NotFoundResponse(@, req[i].path, req[i].method)
                        ELSE @]
           /\ dispEnds' = [dispEnds EXCEPT ![i] = IF notFound THEN @ + 1 ELSE @]
           /\ pc' = [pc EXCEPT ![i] =
                       IF threw THEN "rejected"
                       ELSE IF m.found THEN "body" ELSE "done"]
    /\ UNCHANGED <<req, index, stack, result, thrown, trace,
                 ctx, callVars>>

\* The context with the body left out unless the method is POST.
ContextBodyOfPost(i, body) ==
    [params |-> matched[i].params,
     query |-> parseQueryString(req[i].search).query,
     path |-> req[i].path,
     method |-> req[i].method,
     body |-> IF req[i].method = "POST" THEN body ELSE Undefined,
     built |-> TRUE]

\* const ctx = { req, res, params, query, path, method, body }
Context(i, body) ==
    [params |-> matched[i].params,
     query |-> parseQueryString(req[i].search).query,
     path |-> req[i].path,
     method |-> req[i].method,
     body |-> body,
     built |-> TRUE]

\* parseBody settles (the stream ended or failed): handleRequest builds ctx,
\* sets the cursor to 0 and is about to call next().
ParseBodySettles(i) ==
    /\ pc[i] = "body"
    /\ req[i].stream \in {"end", "error"}
    /\ ctx' = [ctx EXCEPT ![i] = Context(i, parseBody(req[i]))]
    /\ index' = [index EXCEPT ![i] = 0]
    /\ pc' = [pc EXCEPT ![i] = "run"]
    /\ UNCHANGED <<tree, req, res, matched, stack, result, thrown, dispEnds, trace,
                 callVars>>

\* The top frame of the stack is at this operation of its middleware.
TopOp(i) ==
    LET f == stack[i][Len(stack[i])]
        body == MiddlewareBody(allMiddlewares(i)[f.k + 1])
    IN  IF f.ip > Len(body) THEN "return" ELSE body[f.ip]

\* The stack after the awaited call of its top frame has resolved.
Resume(st) ==
    IF st = <<>> THEN st
    ELSE [st EXCEPT ![Len(st)] = [@ EXCEPT !.ip = @ + 1, !.called = TRUE]]

\* Pick without the cursor: always the first middleware.
PickFirst(idx) == 0

\* Pick reading the cursor after its increment has been undone: the
\* middleware taken last is taken again.
PickPrevious(idx) == IF idx > 0 THEN idx - 1 ELSE 0

\* The middleware the closure next takes when the cursor is at idx.
Pick(idx) == idx

\* The closure next over one cursor for the whole server, the cursor of the
\* first request.
nextSharedCursor(i) ==
    /\ \/ pc[i] = "run"
       \/ pc[i] = "chain" /\ stack[i] # <<>> /\ TopOp(i) = "next"
    /\ IF index[1] < Len(allMiddlewares(i))
       THEN /\ stack' = [stack EXCEPT ![i] =
                           Append(@, [k |-> Pick(index[1]), ip |-> 1, called |-> FALSE])]
            /\ index' = [index EXCEPT ![1] = @ + 1]
            /\ trace' = [trace EXCEPT ![i] =
                           Append(@, [ev |-> "mw", k |-> Pick(index[1])])]
            /\ pc' = [pc EXCEPT ![i] = "chain"]
       ELSE /\ stack' = [stack EXCEPT ![i] = Resume(@)]
            /\ pc' = [pc EXCEPT ![i] = IF stack[i] = <<>> THEN "handler" ELSE "chain"]
            /\ UNCHANGED <<index, trace>>
    /\ UNCHANGED <<tree, req, res, matched, result, thrown, dispEnds,
                 ctx, callVars>>

\* The closure next, called by handleRequest (pc = "run") or by the
\* middleware on top of the stack: within bounds it takes the middleware at
\* the cursor, moves the cursor and calls the middleware; out of bounds it
\* resolves at once.
next(i) ==
    /\ \/ pc[i] = "run"
       \/ pc[i] = "chain" /\ stack[i] # <<>> /\ TopOp(i) = "next"
    /\ IF index[i] < Len(allMiddlewares(i))
       THEN /\ stack' = [stack EXCEPT ![i] =
                           Append(@, [k |-> Pick(index[i]), ip |-> 1, called |-> FALSE])]
            /\ index' = [index EXCEPT ![i] = @ + 1]
            /\ trace' = [trace EXCEPT ![i] =
                           Append(@, [ev |-> "mw", k |-> Pick(index[i])])]
            /\ pc' = [pc EXCEPT ![i] = "chain"]
       ELSE /\ stack' = [stack EXCEPT ![i] = Resume(@)]
            /\ pc' = [pc EXCEPT ![i] = IF stack[i] = <<>> THEN "handler" ELSE "chain"]
            /\ UNCHANGED <<index, trace>>
    /\ UNCHANGED <<tree, req, res, matched, result, thrown, dispEnds,
                 ctx, callVars>>

\* The 401 answer of the authentication guard.
Deny(r) ==
    End(SetContentType(SetStatus(r, 401), "application/json"),
        JSONstringify(JObj(<<Prop("error", JStr("Unauthorized"))>>)))

\* The middleware on top of the stack does something other than calling next
\* or returning. An error it throws passes every awaiting caller and reaches
\* the catch of handleRequest.
MiddlewareStep(i) ==
    /\ pc[i] = "chain" /\ stack[i] # <<>>
    /\ LET f == stack[i][Len(stack[i])]
           op == TopOp(i)
       IN  /\ op \in {"deny", "after", "throw"}
           /\ IF op = "throw"
              THEN /\ thrown' = [thrown EXCEPT ![i] =
                                   [from |-> "middleware", k |-> f.k,
                                    value |-> ErrorValue("mw failed"),
                                    ended |-> res[i].writableEnded]]
                   /\ stack' = [stack EXCEPT ![i] = <<>>]
                   /\ pc' = [pc EXCEPT ![i] = "catch"]
                   /\ UNCHANGED <<res, trace>>
              ELSE /\ stack' = [stack EXCEPT ![i] =
                                  [@ EXCEPT ![Len(@)] = [@ EXCEPT !.ip = @ + 1]]]
                   /\ res' = [res EXCEPT ![i] = IF op = "deny" THEN Deny(@) ELSE @]
                   /\ trace' = [trace EXCEPT ![i] =
                                  IF op = "after"
                                  THEN Append(@, [ev |-> "after", k |-> f.k])
                                  ELSE @]
                   /\ UNCHANGED <<thrown, pc>>
    /\ UNCHANGED <<tree, req, matched, index, result, dispEnds,
                 ctx, callVars>>

\* The middleware on top of the stack returns: the next() call that invoked
\* it resolves, in its caller or (stack empty) in handleRequest, which goes
\* on to the handler.
MiddlewareReturn(i) ==
    /\ pc[i] = "chain" /\ stack[i] # <<>>
    /\ TopOp(i) = "return"
    /\ LET f == stack[i][Len(stack[i])]
           rest == SubSeq(stack[i], 1, Len(stack[i]) - 1)
       IN  /\ stack' = [stack EXCEPT ![i] = Resume(rest)]
           /\ trace' = [trace EXCEPT ![i] =
                          Append(@, [ev |-> "return", k |-> f.k, called |-> f.called])]
           /\ pc' = [pc EXCEPT ![i] = IF rest = <<>> THEN "handler" ELSE "chain"]
    /\ UNCHANGED <<tree, req, res, matched, index, result, thrown, dispEnds,
                 ctx, callVars>>

\* handleRequest calls the handler, which runs up to the point it settles.
InvokeHandler(i) ==
    /\ pc[i] = "handler"
    /\ res' = [res EXCEPT ![i] = RunHandlerOps(HandlerBody(matched[i].handler).ops, @)]
    /\ trace' = [trace EXCEPT ![i] = Append(@, [ev |-> "handler"])]
    /\ pc' = [pc EXCEPT ![i] = "awaitHandler"]
    /\ UNCHANGED <<tree, req, matched, index, stack, result, thrown, dispEnds,
                 ctx, callVars>>

\* The awaited handler call settles: with a result, or with an error that
\* reaches the catch of handleRequest.
HandlerSettles(i) ==
    /\ pc[i] = "awaitHandler"
    /\ LET h == HandlerBody(matched[i].handler)
       IN  IF h.out = "return"
           THEN /\ result' = [result EXCEPT ![i] = h.value]
                /\ pc' = [pc EXCEPT ![i] = "finalize"]
                /\ UNCHANGED thrown
           ELSE /\ thrown' = [thrown EXCEPT ![i] =
                                [from |-> "handler", k |-> 0, value |-> h.value,
                                 ended |-> res[i].writableEnded]]
                /\ pc' = [pc EXCEPT ![i] = "catch"]
                /\ UNCHANGED result
    /\ trace' = [trace EXCEPT ![i] = Append(@, [ev |-> "handlerDone"])]
    /\ UNCHANGED <<tree, req, res, matched, index, stack, dispEnds,
                 ctx, callVars>>

\* The success path without its check.
SuccessUnguarded(r) == TRUE

\* if (!res.writableEnded) of the success path
SuccessGuard(r) == ~r.writableEnded

\* The success path testing the result for truth instead of undefined.
SuccessResponseTruthy(r, value) ==
    IF value \notin {Undefined, JNull}
    THEN End(SetContentType(r, "application/json"), JSONstringify(value))
    ELSE End(r, "")

\* The success path setting the status itself.
SuccessResponseOk(r, value) ==
    IF value # Undefined
    THEN End(SetContentType(SetStatus(r, 200), "application/json"), JSONstringify(value))
    ELSE End(SetStatus(r, 200), "")

\* The success path leaving the response open when there is no result.
SuccessResponseOpen(r, value) ==
    IF value # Undefined
    THEN End(SetContentType(r, "application/json"), JSONstringify(value))
    ELSE r

\* What the success path writes for a handler result.
SuccessResponse(r, value) ==
    IF value # Undefined
    THEN End(SetContentType(r, "application/json"), JSONstringify(value))
    ELSE End(r, "")

\* The end of the try block: answer with the handler's result unless the
\* response is finalized already.
Finalize(i) ==
    /\ pc[i] = "finalize"
    /\ IF SuccessGuard(res[i])
       THEN /\ res' = [res EXCEPT ![i] = SuccessResponse(@, result[i])]
            /\ dispEnds' = [dispEnds EXCEPT ![i] = @ + 1]
       ELSE UNCHANGED <<res, dispEnds>>
    /\ pc' = [pc EXCEPT ![i] = "done"]
    /\ UNCHANGED <<tree, req, matched, index, stack, result, thrown, trace,
                 ctx, callVars>>

\* The catch block without its check.
CatchUnguarded(r) == TRUE

\* if (!res.writableEnded) of the catch block
CatchGuard(r) == ~r.writableEnded

\* The message without the instanceof test.
ErrorMessageGeneric(error) == "Unknown error"

\* error instanceof Error ? error.message : "Unknown error"
ErrorMessage(error) == IF error.t = "Error" THEN error.message ELSE "Unknown error"

\* The catch block answering as the listener of the server does: status 500
\* and a plain text.
ErrorResponsePlain(r, error) == End(SetStatus(r, 500), "Internal Server Error")

\* What the catch block writes for an error.
ErrorResponse(r, error) ==
    End(SetContentType(SetStatus(r, 500), "application/json"),
        JSONstringify(JObj(<< Prop("error", JStr("Internal Server Error")),
                              Prop("message", JStr(ErrorMessage(error))) >>)))

\* The catch block: answer 500 unless the response is finalized already.
Catch(i) ==
    /\ pc[i] = "catch"
    /\ IF CatchGuard(res[i])
       THEN /\ res' = [res EXCEPT ![i] = ErrorResponse(@, thrown[i].value)]
            /\ dispEnds' = [dispEnds EXCEPT ![i] = @ + 1]
       ELSE UNCHANGED <<res, dispEnds>>
    /\ pc' = [pc EXCEPT ![i] = "done"]
    /\ UNCHANGED <<tree, req, matched, index, stack, result, thrown, trace,
                 ctx, callVars>>

\* The listener leaving the response open.
ListenerResponseOpen(r) == SetStatus(r, 500)

\* What the catch of the listener writes.
ListenerResponse(r) == End(SetStatus(r, 500), "Internal Server Error")

\* handleRequest(...).catch(...) of the listener: the call was rejected.
ListenerCatch(i) ==
    /\ pc[i] = "rejected"
    /\ res' = [res EXCEPT ![i] = IF ~@.writableEnded THEN ListenerResponse(@) ELSE @]
    /\ pc' = [pc EXCEPT ![i] = "failed"]
    /\ UNCHANGED <<tree, req, matched, index, stack, result, thrown, dispEnds, trace,
                 ctx, callVars>>

Next ==
    \/ \E i \in Ids : HandleRequest(i)
    \/ \E i \in Ids : ParseBodySettles(i)
    \/ \E i \in Ids : next(i)
    \/ \E i \in Ids : MiddlewareStep(i)
    \/ \E i \in Ids : MiddlewareReturn(i)
    \/ \E i \in Ids : InvokeHandler(i)
    \/ \E i \in Ids : HandlerSettles(i)
    \/ \E i \in Ids : Finalize(i)
    \/ \E i \in Ids : Catch(i)
    \/ \E i \in Ids : ListenerCatch(i)

Spec == Init /\ [][Next]_vars

\* One request against a tree built from declarations.
InitRoute == InitFrom(RouteTrees, RouteRequests, {1})

SpecRoute == InitRoute /\ [][Next]_vars

(***************************************************************************)
(* matchPath called on its own                                             *)
(***************************************************************************)
MaxPatternLen == 5
MaxPathLen == 3

\* The characters of the patterns and of the paths: the separator, the
\* parameter sigil, a letter and its capital.
PatternChars == {"/", ":", "a"}
PathChars == {"/", "a", "A"}

MatchPatterns == SeqsUpTo(PatternChars, MaxPatternLen)
MatchPaths == SeqsUpTo(PathChars, MaxPathLen)

\* No request; a pattern and a path for matchPath.
InitMatch ==
    /\ tree = ServerNode(<<>>, <<>>)
    /\ req = <<>> /\ res = <<>> /\ pc = <<>> /\ matched = <<>>
    /\ index = <<>> /\ stack = <<>> /\ result = <<>> /\ thrown = <<>>
    /\ dispEnds = <<>> /\ trace = <<>> /\ ctx = <<>>
    /\ matchArgs \in [pattern : MatchPatterns, path : MatchPaths]
    /\ matchRet = <<>>
    /\ NoJoinCall /\ NoQueryCall /\ NoBodyCall

\* matchPath(pattern, path)
CallMatchPath ==
    /\ matchRet = <<>>
    /\ matchRet' = Append(matchRet, matchPath(matchArgs.pattern, matchArgs.path))
    /\ UNCHANGED <<tree, req, res, pc, matched, index, stack, result, thrown,
                   dispEnds, trace, ctx, matchArgs, joinVars, queryVars, bodyVars>>

NextMatch == CallMatchPath

SpecMatch == InitMatch /\ [][NextMatch]_vars

(***************************************************************************)
(* joinPaths called on its own                                             *)
(***************************************************************************)
MaxJoinLen == 3

\* The variables of the requests.
requestVars == <<tree, req, res, pc, matched, index, stack, result, thrown,
                 dispEnds, trace, ctx>>

\* No request is handled.
NoRequest ==
    /\ tree = ServerNode(<<>>, <<>>)
    /\ req = <<>> /\ res = <<>> /\ pc = <<>> /\ matched = <<>>
    /\ index = <<>> /\ stack = <<>> /\ result = <<>> /\ thrown = <<>>
    /\ dispEnds = <<>> /\ trace = <<>> /\ ctx = <<>>

JoinChars == {"/", "a"}
JoinPaths == SeqsUpTo(JoinChars, MaxJoinLen)

\* Three paths a, b and c for joinPaths.
InitJoin ==
    /\ NoRequest
    /\ joinArgs \in [1..3 -> JoinPaths]
    /\ joinRet = <<>>
    /\ NoMatchCall /\ NoQueryCall /\ NoBodyCall

\* joinPaths(a, b), then joinPaths(joinPaths(a, b), c), then
\* joinPaths(a, b, c).
CallJoinPaths ==
    /\ joinArgs # <<>>
    /\ Len(joinRet) < 3
    /\ joinRet' = Append(joinRet,
                     CASE Len(joinRet) = 0 -> joinPaths(<<joinArgs[1], joinArgs[2]>>)
                       [] Len(joinRet) = 1 -> joinPaths(<<joinRet[1], joinArgs[3]>>)
                       [] OTHER -> joinPaths(joinArgs))
    /\ UNCHANGED <<requestVars, matchVars, joinArgs, queryVars, bodyVars>>

NextJoin == CallJoinPaths

SpecJoin == InitJoin /\ [][NextJoin]_vars

(***************************************************************************)
(* parseQueryString called on its own                                      *)
(***************************************************************************)
MaxQueryLen == 5

\* The characters of the query strings: the separators, the escape sign and
\* two characters that are hexadecimal digits too.
QueryChars == {"&", "=", "%", "4", "a"}
QueryStrings == SeqsUpTo(QueryChars, MaxQueryLen)

\* A query string for parseQueryString.
InitQuery ==
    /\ NoRequest
    /\ queryArg \in QueryStrings
    /\ queryRet = <<>>
    /\ NoMatchCall /\ NoJoinCall /\ NoBodyCall

\* parseQueryString(queryString)
CallParseQueryString ==
    /\ queryRet = <<>>
    /\ queryRet' = Append(queryRet, parseQueryString(queryArg))
    /\ UNCHANGED <<requestVars, matchVars, joinVars, queryArg, bodyVars>>

NextQuery == CallParseQueryString

SpecQuery == InitQuery /\ [][NextQuery]_vars

(***************************************************************************)
(* parseBody called on its own                                             *)
(***************************************************************************)
MaxChunks == 3

\* The chunks the stream may emit: pieces of JSON texts and a letter.
BodyChunks == { <<"[">>, <<"1">>, <<",">>, <<"]">>, <<"x">>, <<"1", "]">> }

\* parseBody(req) has been called: the listeners are attached to a stream
\* that has emitted nothing yet.
InitParseBody ==
    /\ NoRequest
    /\ bodyStream = <<>>
    /\ chunks = <<>>
    /\ bodyRet = <<>>
    /\ NoMatchCall /\ NoJoinCall /\ NoQueryCall

\* req.on("data", ...): the stream emits a chunk.
OnData ==
    /\ bodyStream = <<>>
    /\ Len(chunks) < MaxChunks
    /\ \E chunk \in BodyChunks : chunks' = Append(chunks, chunk)
    /\ UNCHANGED <<requestVars, matchVars, joinVars, queryVars, bodyStream, bodyRet>>

\* req.on("end", ...): the stream has emitted its last chunk.
OnEnd ==
    /\ bodyStream = <<>>
    /\ bodyStream' = <<"end">>
    /\ bodyRet' = resolve(bodyRet, OnEndValue(chunks))
    /\ UNCHANGED <<requestVars, matchVars, joinVars, queryVars, chunks>>

\* req.on("error", ...): the stream fails, while it flows or (the connection
\* breaking) after its end.
OnError ==
    /\ bodyStream \in {<<>>, <<"end">>}
    /\ bodyStream' = Append(bodyStream, "error")
    /\ bodyRet' = resolve(bodyRet, OnErrorValue)
    /\ UNCHANGED <<requestVars, matchVars, joinVars, queryVars, chunks>>

NextParseBody == OnData \/ OnEnd \/ OnError

SpecParseBody == InitParseBody /\ [][NextParseBody]_vars

(***************************************************************************)
(* Properties                                                              *)
(***************************************************************************)
\* findRoute has been called for request i.
Resolved(i) == pc[i] \notin {"new", "rejected", "failed"}

\* The events of request i with this name.
Events(i, ev) == SelectSeq(trace[i], LAMBDA e : e.ev = ev)

\* The handler of request i returned (handleRequest is past the await).
Returned(i) == matched[i].found /\ thrown[i] = NoError /\ pc[i] \in {"finalize", "done"}

\* The JSON text of what each handler returns, written out.
ExpectedJson(h) ==
    CASE h \in {"retObj", "endRetObj"} -> "{\"ok\":true}"
      [] h = "retArr" -> "[\"a\",null]"
      [] h = "retStr" -> "\"hi\""
      [] h = "retNull" -> "null"
      [] h = "created" -> "{\"id\":\"1\"}"
      [] OTHER -> ""

\* The message each failing handler is answered with, written out.
ExpectedMessage(h) ==
    CASE h = "throwErr" -> "boom"
      [] h = "rejectErr" -> "async boom"
      [] h = "endThrow" -> "late"
      [] OTHER -> "Unknown error"

\* C1: if a middleware of the chain returned without ever calling next, no
\* later middleware and not the handler is invoked for that request.
C1_ShortCircuitStopsChain ==
    \A i \in Ids : \A p \in 1..Len(trace[i]) :
        (trace[i][p].ev = "return" /\ ~trace[i][p].called) =>
            \A q \in 1..Len(trace[i]) :
                /\ trace[i][q].ev # "handler"
                /\ trace[i][q].ev = "mw" => trace[i][q].k <= trace[i][p].k

\* C2: handleRequest calls res.end at most once per request, only on a
\* response that is not ended yet, and when it has completed (404, success,
\* short-circuit or error) the response is ended.
C2_FinalizedExactlyOnce ==
    /\ [](\A i \in Ids : /\ dispEnds[i] <= 1
                         /\ pc[i] = "done" => res[i].writableEnded)
    /\ [][\A i \in Ids :
            dispEnds'[i] # dispEnds[i] =>
                /\ dispEnds'[i] = dispEnds[i] + 1
                /\ ~res[i].writableEnded
                /\ res'[i].writableEnded]_vars

\* C2 witness: a request completed whose response a middleware had ended,
\* handleRequest itself never calling res.end.
C2_Witness ==
    \E i \in Ids : /\ pc[i] = "done" /\ dispEnds[i] = 0
                   /\ res[i].writableEnded /\ res[i].statusCode = 401

\* C3: when findRoute finds no endpoint, the response is ended with status
\* 404 and the JSON body {error: "Not Found", path, method}, and no
\* middleware (the root's included) and no handler was invoked.
C3_NotFound ==
    \A i \in Ids :
        (Resolved(i) /\ ~matched[i].found) =>
            /\ pc[i] = "done"
            /\ res[i] = [statusCode |-> 404, contentType |-> "application/json",
                         body |-> "{\"error\":\"Not Found\",\"path\":\""
                                  \o Str(req[i].path) \o "\",\"method\":\""
                                  \o req[i].method \o "\"}",
                         writableEnded |-> TRUE]
            /\ dispEnds[i] = 1
            /\ trace[i] = <<>>

\* C3 witness: a request answered 404 under a root that carries middleware.
C3_Witness ==
    \E i \in Ids : /\ pc[i] = "done" /\ ~matched[i].found
                   /\ tree.middlewares # <<>> /\ res[i].statusCode = 404

\* Every middleware of the resolved list calls and awaits next.
AllCallNext(i) ==
    \A j \in 1..Len(allMiddlewares(i)) :
        allMiddlewares(i)[j] \in {"pass", "passThrow", "twice"}

\* C4: when every middleware calls and awaits next, the middlewares are
\* entered in the order of the list (0, 1, 2, ...) and the handler is entered
\* only after all of them have been entered.
C4_MiddlewareOrder ==
    \A i \in Ids :
        AllCallNext(i) =>
            /\ \A p \in 1..Len(Events(i, "mw")) : Events(i, "mw")[p].k = p - 1
            /\ \A q \in 1..Len(trace[i]) :
                 trace[i][q].ev = "handler" =>
                     /\ Len(SelectSeq(SubSeq(trace[i], 1, q - 1),
                                      LAMBDA e : e.ev = "mw")) = Len(allMiddlewares(i))
                     /\ Len(Events(i, "mw")) = Len(allMiddlewares(i))

\* C4 witness: two or more passing middlewares entered in order, then the
\* handler.
C4_Witness ==
    \E i \in Ids : /\ AllCallNext(i) /\ Len(allMiddlewares(i)) >= 2
                   /\ Len(Events(i, "handler")) = 1
                   /\ trace[i][1] = [ev |-> "mw", k |-> 0]
                   /\ trace[i][2] = [ev |-> "mw", k |-> 1]

\* C5: what a middleware does after its awaited next() happens after the
\* handler has finished.
C5_NextResolvesAfterHandler ==
    \A i \in Ids : \A p \in 1..Len(trace[i]) :
        trace[i][p].ev = "after" =>
            \E q \in 1..(p - 1) : trace[i][q].ev = "handlerDone"

\* C6: a handler that throws or rejects while the response is not ended is
\* answered 500 with {error: "Internal Server Error", message}, message being
\* the Error's message or "Unknown error", and handleRequest completes.
C6_HandlerError ==
    \A i \in Ids :
        (thrown[i] # NoError /\ thrown[i].from = "handler" /\ ~thrown[i].ended) =>
            /\ pc[i] \in {"catch", "done"}
            /\ pc[i] = "done" =>
                 /\ res[i].statusCode = 500
                 /\ res[i].contentType = "application/json"
                 /\ res[i].body = "{\"error\":\"Internal Server Error\",\"message\":\""
                                  \o ExpectedMessage(matched[i].handler) \o "\"}"
                 /\ res[i].writableEnded
                 /\ dispEnds[i] = 1

\* C6 witness: a thrown Error answered with its message.
C6_Witness ==
    \E i \in Ids : /\ pc[i] = "done" /\ matched[i].handler = "throwErr"
                   /\ thrown[i] # NoError /\ thrown[i].from = "handler"
                   /\ res[i].statusCode = 500

\* C7: an error caught after the response was ended changes nothing: status
\* and body stay, res.end is not called again, handleRequest completes.
C7_NoWriteAfterEnd ==
    [][\A i \in Ids :
         (pc[i] = "catch" /\ res[i].writableEnded) =>
             /\ res'[i] = res[i]
             /\ dispEnds'[i] = dispEnds[i]
             /\ pc'[i] \in {"catch", "done"}]_vars

\* C7 witness: a completed request whose error came after a middleware had
\* answered 401.
C7_Witness ==
    \E i \in Ids : /\ pc[i] = "done" /\ thrown[i] # NoError /\ thrown[i].ended
                   /\ res[i].statusCode = 401 /\ dispEnds[i] = 0

C9_UndefinedLeavesOpen ==
    \A i \in Ids :
        (pc[i] = "done" /\ Returned(i) /\ result[i] = Undefined) => dispEnds[i] = 0

\* C10: a string result is sent as it is, without the JSON content type; an
\* object or array result is sent as JSON text with Content-Type
\* application/json.
C10_StringAsPlainText ==
    \A i \in Ids :
        (pc[i] = "done" /\ Returned(i) /\ dispEnds[i] = 1) =>
            /\ result[i].t = "string" =>
                 res[i].body = result[i].s /\ res[i].contentType # "application/json"
            /\ result[i].t \in {"object", "array"} =>
                 /\ res[i].body = ExpectedJson(matched[i].handler)
                 /\ res[i].contentType = "application/json"

\* The status last assigned by a middleware or the handler of request i: the
\* handler "created" assigns 201, the middleware "guard" 401; 200 is the
\* default.
LastAssignedStatus(i) ==
    IF matched[i].handler = "created" THEN 201
    ELSE IF \E p \in 1..Len(trace[i]) :
                /\ trace[i][p].ev = "mw"
                /\ allMiddlewares(i)[trace[i][p].k + 1] = "guard"
         THEN 401
         ELSE 200

\* C11: on the success path handleRequest never changes the status code: the
\* finalized response has the status a middleware or the handler assigned
\* last (or the default); handleRequest sets a status only on the 404 and on
\* the 500 path.
C11_StatusUntouched ==
    /\ [](\A i \in Ids :
             (pc[i] = "done" /\ Returned(i)) =>
                 res[i].statusCode = LastAssignedStatus(i))
    /\ [][\A i \in Ids :
            res'[i].statusCode # res[i].statusCode =>
                \/ pc[i] \in {"chain", "handler"}
                \/ pc[i] = "new" /\ ~matched'[i].found /\ res'[i].statusCode = 404
                \/ pc[i] = "catch" /\ res'[i].statusCode = 500
                \/ pc[i] = "rejected" /\ res'[i].statusCode = 500]_vars

\* C11 witness: a handler set 201 and handleRequest sent its result.
C11_Witness ==
    \E i \in Ids : /\ pc[i] = "done" /\ Returned(i) /\ dispEnds[i] = 1
                   /\ res[i].statusCode = 201 /\ res[i].writableEnded

(***************************************************************************)
(* Resolution, read off the declarations                                   *)
(***************************************************************************)
RECURSIVE SegmentsOf(_)
\* The segments of a path: the maximal runs of characters other than "/".
SegmentsOf(s) ==
    IF s = <<>> THEN <<>>
    ELSE LET front == SubSeq(s, 1, Len(s) - 1)
             last == s[Len(s)]
             fs == SegmentsOf(front)
         IN  IF last = "/" THEN fs
             ELSE IF front # <<>> /\ front[Len(front)] # "/"
                  THEN [fs EXCEPT ![Len(fs)] = Append(@, last)]
                  ELSE Append(fs, <<last>>)

\* A pattern of segments fits a path of segments.
SegmentsFit(pattern, segs) ==
    /\ Len(pattern) = Len(segs)
    /\ \A k \in 1..Len(pattern) : pattern[k][1] = ":" \/ pattern[k] = segs[k]

\* The method an element declares.
DeclaredMethod(el) == IF el.type = "get" THEN "GET" ELSE "POST"

RECURSIVE DeclaredMiddleware(_)
\* The middleware declared directly in a list of children, in order.
DeclaredMiddleware(els) ==
    IF els = <<>> THEN <<>>
    ELSE (IF Head(els).type = "middleware" THEN <<Head(els).fn>> ELSE <<>>)
         \o DeclaredMiddleware(Tail(els))

\* The endpoint declared by element el at position pos (the child indexes
\* from the server down), under the groups' prefix and middleware.
Endpoint(el, pos, prefix, mws) ==
    [pos |-> pos, method |-> DeclaredMethod(el), handler |-> el.fn,
     pattern |-> prefix \o SegmentsOf(el.path), mws |-> mws]

RECURSIVE GroupEndpoints(_, _, _, _)
RECURSIVE DirectFrom(_, _, _, _, _)
RECURSIVE NestedFrom(_, _, _, _, _)
\* The endpoints of a group in the order of resolution: those declared
\* directly in it, then those of its nested groups.
GroupEndpoints(group, pos, prefix, mws) ==
    LET pre == prefix \o SegmentsOf(group.path)
        own == mws \o DeclaredMiddleware(group.children)
    IN  DirectFrom(group.children, 1, pos, pre, own)
        \o NestedFrom(group.children, 1, pos, pre, own)

DirectFrom(els, k, pos, pre, own) ==
    IF k > Len(els) THEN <<>>
    ELSE (IF els[k].type \in {"get", "post"}
          THEN <<Endpoint(els[k], Append(pos, k), pre, own)>>
          ELSE <<>>)
         \o DirectFrom(els, k + 1, pos, pre, own)

NestedFrom(els, k, pos, pre, own) ==
    IF k > Len(els) THEN <<>>
    ELSE (IF els[k].type = "route"
          THEN GroupEndpoints(els[k], Append(pos, k), pre, own)
          ELSE <<>>)
         \o NestedFrom(els, k + 1, pos, pre, own)

RECURSIVE RootFrom(_, _, _)
\* The endpoints under the server in the order of resolution: its children
\* in declaration order.
RootFrom(els, k, rootMws) ==
    IF k > Len(els) THEN <<>>
    ELSE (IF els[k].type \in {"get", "post"}
          THEN <<Endpoint(els[k], <<k>>, <<>>, rootMws)>>
          ELSE IF els[k].type = "route"
          THEN GroupEndpoints(els[k], <<k>>, <<>>, rootMws)
          ELSE <<>>)
         \o RootFrom(els, k + 1, rootMws)

ResolutionOrder(app) ==
    RootFrom(app.children, 1, DeclaredMiddleware(app.children))

\* The declarations the tree was built from.
App == CHOOSE app \in Apps : Render(app) = tree

\* The endpoints of the tree that fit request i, in the order of resolution.
Fitting(i) ==
    SelectSeq(ResolutionOrder(App),
              LAMBDA e : /\ e.method = req[i].method
                         /\ SegmentsFit(e.pattern, SegmentsOf(req[i].path)))

\* The endpoint request i was resolved to (handlers are distinct per tree).
TheEndpoint(i) ==
    CHOOSE e \in {ResolutionOrder(App)[k] : k \in 1..Len(ResolutionOrder(App))} :
        e.handler = matched[i].handler

\* q is a prefix of position pos.
IsPrefix(q, pos) == Len(q) <= Len(pos) /\ SubSeq(pos, 1, Len(q)) = q

RECURSIVE GroupsIn(_, _)
\* The groups declared in a list of children at pos, each with its position
\* and the middleware declared directly in it.
GroupsIn(els, pos) ==
    UNION { IF els[k].type = "route"
            THEN {[pos |-> Append(pos, k),
                   mws |-> DeclaredMiddleware(els[k].children)]}
                 \cup GroupsIn(els[k].children, Append(pos, k))
            ELSE {} : k \in 1..Len(els) }

Range(f) == {f[k] : k \in DOMAIN f}

\* C12: the middleware list of a resolved endpoint is the root's middleware
\* followed by that of its ancestor groups from the outermost to the
\* innermost, each in declaration order.
C12_MiddlewareAccumulation ==
    \A i \in Ids :
        (Resolved(i) /\ matched[i].found) =>
            matched[i].middlewares = TheEndpoint(i).mws

\* C12 witness: an endpoint two groups deep, under root, outer and inner
\* middleware.
C12_Witness ==
    \E i \in Ids : /\ Resolved(i) /\ matched[i].found
                   /\ matched[i].handler = "retObj"
                   /\ matched[i].middlewares = <<"pass", "twice", "guard", "passThrow">>

\* C13: a middleware declared in a group is in the resolved list of an
\* endpoint exactly when the endpoint is declared in the group or below it;
\* the root's middleware is in every list.
C13_MiddlewareScope ==
    \A i \in Ids :
        (Resolved(i) /\ matched[i].found) =>
            /\ \A g \in GroupsIn(App.children, <<>>) : \A m \in Range(g.mws) :
                 m \in Range(matched[i].middlewares)
                     <=> IsPrefix(g.pos, TheEndpoint(i).pos)
            /\ Range(DeclaredMiddleware(App.children))
                   \subseteq Range(matched[i].middlewares)
            /\ \A p \in 1..Len(trace[i]) :
                 trace[i][p].ev = "mw" =>
                     LET m == allMiddlewares(i)[trace[i][p].k + 1]
                     IN  \/ m \in Range(DeclaredMiddleware(App.children))
                         \/ \E g \in GroupsIn(App.children, <<>>) :
                              /\ m \in Range(g.mws)
                              /\ IsPrefix(g.pos, TheEndpoint(i).pos)

\* C13 witness: an endpoint of group /b, whose list has neither the
\* middleware of its sibling group /a nor that of the groups nested there.
C13_Witness ==
    \E i \in Ids : /\ Resolved(i) /\ matched[i].found
                   /\ matched[i].handler = "throwErr"
                   /\ matched[i].middlewares = <<"pass", "thrower">>
                   /\ Len(Events(i, "mw")) = 2

\* C14: findRoute returns the first endpoint, in the order of resolution,
\* whose method and pattern fit the request, and none when no endpoint fits.
C14_FirstMatchWins ==
    \A i \in Ids :
        Resolved(i) =>
            /\ matched[i].found <=> Fitting(i) # <<>>
            /\ matched[i].found => matched[i].handler = Fitting(i)[1].handler

\* C14 witness: GET /u/me under the parameter group declared before the
\* literal group: both groups' endpoints fit, the parameter group's is returned.
C14_Witness ==
    \E i \in Ids : /\ Resolved(i) /\ Len(Fitting(i)) = 2
                   /\ Fitting(i)[2].handler = "retStr"
                   /\ App = AppOverlap
                   /\ req[i].path = <<"/", "u", "/", "m", "e">>
                   /\ matched[i].handler = "retObj"

\* C15: an endpoint of a nested group is returned only if no endpoint
\* declared directly in an enclosing group fits, wherever the nested group is
\* declared.
C15_DirectBeforeNested ==
    \A i \in Ids :
        (Resolved(i) /\ matched[i].found) =>
            \A k \in 1..Len(Fitting(i)) :
                LET d == Fitting(i)[k]
                    group == SubSeq(d.pos, 1, Len(d.pos) - 1)
                IN  ~ /\ Len(d.pos) >= 2
                      /\ IsPrefix(group, TheEndpoint(i).pos)
                      /\ Len(TheEndpoint(i).pos) > Len(d.pos)

\* C15 witness: GET /a/x fits the endpoint of the nested group /a/:id,
\* declared first, and the direct endpoint /a + /x, which is returned.
C15_Witness ==
    \E i \in Ids : /\ Resolved(i) /\ App = AppNested
                   /\ Len(Fitting(i)) = 2
                   /\ Fitting(i)[2].handler = "retObj"
                   /\ Fitting(i)[2].pos = <<2, 2, 2>>
                   /\ matched[i].handler = "retNull"
                   /\ TheEndpoint(i).pos = <<2, 4>>

\* C16: the pattern of an endpoint is the prefixes of its ancestor groups
\* from the root down followed by its own suffix: a request is resolved to an
\* endpoint only if that pattern fits its path, and is resolved whenever the
\* pattern of an endpoint of its method fits.
C16_FullPattern ==
    \A i \in Ids :
        Resolved(i) =>
            /\ matched[i].found =>
                 SegmentsFit(TheEndpoint(i).pattern, SegmentsOf(req[i].path))
            /\ \A k \in 1..Len(ResolutionOrder(App)) :
                 LET e == ResolutionOrder(App)[k]
                 IN  (/\ e.method = req[i].method
                      /\ SegmentsFit(e.pattern, SegmentsOf(req[i].path)))
                     => matched[i].found

\* C16 witness: the root-level endpoint without suffix, resolved for the
\* root path.
C16_Witness ==
    \E i \in Ids : /\ Resolved(i) /\ matched[i].found
                   /\ TheEndpoint(i).pos = <<4>> /\ TheEndpoint(i).pattern = <<>>
                   /\ req[i].path = <<"/">>

\* C16 witness: an endpoint with a suffix two groups deep.
C16_WitnessDeep ==
    \E i \in Ids : /\ Resolved(i) /\ matched[i].found
                   /\ Len(TheEndpoint(i).pattern) = 3
                   /\ req[i].path = <<"/", "a", "/", "7", "/", "b">>

\* C20: a request is resolved only to an endpoint of exactly its method; a
\* request no endpoint of its method fits, though its path fits an endpoint
\* of another method, is not resolved and is answered 404.
C20_MethodMustMatch ==
    \A i \in Ids :
        Resolved(i) =>
            /\ matched[i].found => TheEndpoint(i).method = req[i].method
            /\ (\A k \in 1..Len(ResolutionOrder(App)) :
                    LET e == ResolutionOrder(App)[k]
                    IN  SegmentsFit(e.pattern, SegmentsOf(req[i].path))
                            => e.method # req[i].method)
                 => /\ ~matched[i].found
                    /\ pc[i] = "done"
                    /\ res[i].statusCode = 404

\* C20 witness: PUT on a path that endpoints of GET and POST fit.
C20_Witness ==
    \E i \in Ids : /\ Resolved(i) /\ ~matched[i].found /\ req[i].method = "PUT"
                   /\ res[i].statusCode = 404
                   /\ \E k \in 1..Len(ResolutionOrder(App)) :
                        SegmentsFit(ResolutionOrder(App)[k].pattern,
                                    SegmentsOf(req[i].path))

(***************************************************************************)
(* matchPath                                                               *)
(***************************************************************************)
\* matchPath has been called and has returned.
MatchReturned == matchRet # <<>>

\* The segments of the pattern and of the path of the call.
PatternSegs == SegmentsOf(matchArgs.pattern)
PathSegs == SegmentsOf(matchArgs.path)

\* The positions of the pattern that hold a parameter, and the name there.
ParamPositions == {k \in 1..Len(PatternSegs) : PatternSegs[k][1] = ":"}
ParamName(k) == Str(SubSeq(PatternSegs[k], 2, Len(PatternSegs[k])))

Max(S) == CHOOSE x \in S : \A y \in S : y <= x

\* C17: matchPath matches exactly when pattern and path have as many
\* segments and every segment of the pattern starts with ":" or is the
\* segment of the path at its position, letter for letter.
C17_MatchIff ==
    MatchReturned =>
        /\ matchRet[1].match <=>
             /\ Len(PatternSegs) = Len(PathSegs)
             /\ \A k \in 1..Len(PatternSegs) :
                  PatternSegs[k][1] = ":" \/ PatternSegs[k] = PathSegs[k]
        /\ Len(PatternSegs) # Len(PathSegs) => ~matchRet[1].match

\* C17 witness: a literal and a parameter matched.
C17_Witness ==
    /\ MatchReturned /\ matchRet[1].match
    /\ matchArgs.pattern = <<"/", "a", "/", ":", "a">>
    /\ matchArgs.path = <<"a", "/", "A">>

\* C17 witness: segments that differ only in case do not match.
C17_WitnessCase ==
    /\ MatchReturned /\ ~matchRet[1].match
    /\ matchArgs.pattern = <<"/", "a">>
    /\ matchArgs.path = <<"/", "A">>

\* C17 witness: a pattern of parameters only, longer than the path.
C17_WitnessLength ==
    /\ MatchReturned /\ ~matchRet[1].match
    /\ matchArgs.pattern = <<":", "a", "/", ":">>
    /\ matchArgs.path = <<"a">>

\* C18: on a match, params has one entry per parameter name of the pattern,
\* the name without its ":", bound to the segment of the path at the last
\* position that has the name; without parameters params is empty.
C18_Params ==
    (MatchReturned /\ matchRet[1].match) =>
        /\ DOMAIN matchRet[1].params = {ParamName(k) : k \in ParamPositions}
        /\ \A k \in ParamPositions :
             matchRet[1].params[ParamName(k)] =
                 Str(PathSegs[Max({j \in ParamPositions : ParamName(j) = ParamName(k)})])
        /\ ParamPositions = {} => matchRet[1].params = EmptyParams

\* C18 witness: the name a twice, bound to the value of the second position.
C18_Witness ==
    /\ MatchReturned /\ matchRet[1].match
    /\ matchArgs.pattern = <<":", "a", "/", ":", "a">>
    /\ matchArgs.path = <<"a", "/", "A">>
    /\ matchRet[1].params = ("a" :> "A")

\* C18 witness: a match of literals only, with empty params.
C18_WitnessEmpty ==
    /\ MatchReturned /\ matchRet[1].match
    /\ matchArgs.pattern = <<"a", "/", "a">>
    /\ matchRet[1].params = EmptyParams

\* s with one more "/" in front, at the end, or next to a "/" it has.
MoreSlashes(s) ==
    { SubSeq(s, 1, k) \o <<"/">> \o SubSeq(s, k + 1, Len(s)) :
        k \in {j \in 0..Len(s) : \/ j = 0 \/ j = Len(s)
                                 \/ s[j] = "/" \/ s[j + 1] = "/"} }

\* C19: a "/" more in front, at the end or next to another, in the pattern
\* or in the path, leaves the result of matchPath as it is (and so does one
\* less); "/" matches "/" with empty params.
C19_SlashesIgnored ==
    MatchReturned =>
        /\ \A q \in MoreSlashes(matchArgs.pattern) :
             matchPath(q, matchArgs.path) = matchRet[1]
        /\ \A q \in MoreSlashes(matchArgs.path) :
             matchPath(matchArgs.pattern, q) = matchRet[1]
        /\ (matchArgs.pattern = <<"/">> /\ matchArgs.path = <<"/">>) =>
             matchRet[1] = [match |-> TRUE, params |-> EmptyParams]

\* C19 witness: the root pattern against the root path.
C19_Witness ==
    /\ MatchReturned
    /\ matchArgs.pattern = <<"/">> /\ matchArgs.path = <<"/">>
    /\ matchRet[1].match

\* C19 witness: a match through slashes in front, doubled and at the end.
C19_WitnessSlashes ==
    /\ MatchReturned /\ matchRet[1].match
    /\ matchArgs.pattern = <<"/", ":", "/", "/", "a">>
    /\ matchArgs.path = <<"A", "/", "a">>
    /\ matchRet[1].params = ("" :> "A")

(***************************************************************************)
(* The cursor and failing middleware                                       *)
(***************************************************************************)
\* The positions of the middleware list that request i has invoked, in order.
Invoked(i) ==
    LET mws == Events(i, "mw") IN [p \in 1..Len(mws) |-> mws[p].k]

MiddlewareThrew(i) == thrown[i] # NoError /\ thrown[i].from = "middleware"

\* C29 as stated: after a middleware has thrown, the handler has not been
\* invoked and no middleware behind the failing one in the list has been.
C29_NoLaterMiddleware ==
    \A i \in Ids :
        MiddlewareThrew(i) =>
            /\ Events(i, "handler") = <<>>
            /\ \A p \in 1..Len(Invoked(i)) : Invoked(i)[p] <= thrown[i].k

\* C29 amended: when a middleware throws, the handler has not been invoked
\* and nothing is invoked from then on; a middleware behind the failing one in
\* the list has been invoked only if the failing one called next before it
\* threw. The answer becomes the 500 payload with the error's message if the
\* response was open at the throw, and stays as it was otherwise.
C29_MiddlewareError ==
    /\ [](\A i \in Ids :
            MiddlewareThrew(i) =>
                /\ Events(i, "handler") = <<>>
                /\ pc[i] \in {"catch", "done"}
                /\ (\E p \in 1..Len(Invoked(i)) : Invoked(i)[p] > thrown[i].k)
                       => "next" \in Range(MiddlewareBody(allMiddlewares(i)[thrown[i].k + 1]))
                /\ (pc[i] = "done" /\ ~thrown[i].ended) =>
                       /\ res[i].statusCode = 500
                       /\ res[i].contentType = "application/json"
                       /\ res[i].body = "{\"error\":\"Internal Server Error\","
                                        \o "\"message\":\"mw failed\"}"
                       /\ res[i].writableEnded
                /\ (pc[i] = "done" /\ thrown[i].ended) => dispEnds[i] = 0)
    /\ [][\A i \in Ids :
            MiddlewareThrew(i) =>
                /\ trace'[i] = trace[i]
                /\ thrown[i].ended => res'[i] = res[i]]_vars

\* C29 witness: the first middleware threw with the response open; the
\* second middleware of the list and the handler never ran.
C29_Witness ==
    \E i \in Ids : /\ pc[i] = "done" /\ MiddlewareThrew(i) /\ ~thrown[i].ended
                   /\ Len(allMiddlewares(i)) = 2 /\ thrown[i].k = 0
                   /\ Invoked(i) = <<0>>
                   /\ res[i].statusCode = 500

\* C29 witness: a middleware threw after the one behind it had answered 401.
C29_WitnessEnded ==
    \E i \in Ids : /\ pc[i] = "done" /\ MiddlewareThrew(i) /\ thrown[i].ended
                   /\ Invoked(i) = <<0, 1>> /\ thrown[i].k = 0
                   /\ res[i].statusCode = 401

(***************************************************************************)
(* joinPaths                                                               *)
(***************************************************************************)
\* p is made of slashes only (or is empty).
OnlySlashes(p) == \A k \in 1..Len(p) : p[k] = "/"

\* p without the slashes at its ends.
Trimmed(p) ==
    IF OnlySlashes(p) THEN <<>>
    ELSE LET inner == {k \in 1..Len(p) : p[k] # "/"}
         IN  SubSeq(p, CHOOSE k \in inner : \A j \in inner : k <= j,
                       CHOOSE k \in inner : \A j \in inner : k >= j)

RECURSIVE Joined(_)
\* "/" and the trimmed form of each path that has one.
Joined(ps) ==
    IF ps = <<>> THEN <<>>
    ELSE LET rest == Joined(Tail(ps))
         IN  IF OnlySlashes(Head(ps)) THEN rest
             ELSE <<"/">> \o Trimmed(Head(ps)) \o rest

\* All three calls of joinPaths have returned.
JoinReturned == Len(joinRet) = 3

\* C27: joinPaths gives "/" followed by the arguments without the slashes at
\* their ends, those left empty dropped, with one "/" between them: the
\* result starts with "/", ends with "/" only if it is "/", is "/" when every
\* argument is empty or slashes, and joinPaths(joinPaths(a, b), c) is
\* joinPaths(a, b, c).
C27_JoinPaths ==
    JoinReturned =>
        /\ joinRet[3] = IF \A k \in 1..3 : OnlySlashes(joinArgs[k])
                        THEN <<"/">> ELSE Joined(joinArgs)
        /\ joinRet[1] = IF \A k \in 1..2 : OnlySlashes(joinArgs[k])
                        THEN <<"/">> ELSE Joined(SubSeq(joinArgs, 1, 2))
        /\ \A n \in 1..3 :
             /\ Head(joinRet[n]) = "/"
             /\ joinRet[n][Len(joinRet[n])] = "/" => joinRet[n] = <<"/">>
        /\ joinRet[2] = joinRet[3]

\* C27 witness: slashes doubled at the ends, an argument of slashes only.
C27_Witness ==
    /\ JoinReturned
    /\ joinArgs = << <<"/", "/", "a">>, <<"/", "/">>, <<"a", "a", "/">> >>
    /\ joinRet = << <<"/", "a">>, <<"/", "a", "/", "a", "a">>,
                    <<"/", "a", "/", "a", "a">> >>

\* C27 witness: nothing but slashes and empty arguments.
C27_WitnessRoot ==
    /\ JoinReturned
    /\ joinArgs = << <<>>, <<"/", "/">>, <<>> >>
    /\ joinRet[3] = <<"/">>

(***************************************************************************)
(* parseQueryString                                                        *)
(***************************************************************************)
RECURSIVE PiecesOf(_, _)
\* The pieces of s between the separators, the empty ones included.
PiecesOf(s, sep) ==
    IF s = <<>> THEN << <<>> >>
    ELSE LET front == PiecesOf(SubSeq(s, 1, Len(s) - 1), sep)
         IN  IF s[Len(s)] = sep THEN Append(front, <<>>)
             ELSE [front EXCEPT ![Len(front)] = Append(@, s[Len(s)])]

\* parseQueryString has been called and has returned or thrown.
QueryReturned == queryRet # <<>>

\* The pairs of the query string, the key and the value of pair k.
QueryPairs == PiecesOf(queryArg, "&")
PairKey(k) == PiecesOf(QueryPairs[k], "=")[1]
PairValue(k) ==
    IF Len(PiecesOf(QueryPairs[k], "=")) >= 2
    THEN PiecesOf(QueryPairs[k], "=")[2] ELSE <<>>

\* The pairs that are not skipped.
KeptPairs == {k \in 1..Len(QueryPairs) : PairKey(k) # <<>>}

\* A key or a value of a kept pair has a malformed escape.
Malformed ==
    \E k \in KeptPairs : \/ decodeURIComponent(PairKey(k)).threw
                         \/ decodeURIComponent(PairValue(k)).threw

\* C21: parseQueryString binds, for every pair between "&" whose first piece
\* before "=" is not empty, that piece (decoded) to the second piece
\* (decoded), or to "" when there is no second piece; what follows a second
\* "=" is dropped, the last pair of a key wins, pairs with an empty key are
\* skipped and the empty query gives the empty mapping. It throws only for a
\* malformed escape in a pair it keeps.
C21_ParseQueryString ==
    QueryReturned =>
        /\ queryRet[1].threw <=> Malformed
        /\ ~queryRet[1].threw =>
             /\ DOMAIN queryRet[1].query =
                    {decodeURIComponent(PairKey(k)).text : k \in KeptPairs}
             /\ \A k \in KeptPairs :
                  LET same == {j \in KeptPairs :
                                 decodeURIComponent(PairKey(j)).text
                                     = decodeURIComponent(PairKey(k)).text}
                      last == CHOOSE j \in same : \A m \in same : m <= j
                  IN  queryRet[1].query[decodeURIComponent(PairKey(k)).text]
                          = decodeURIComponent(PairValue(last)).text
        /\ queryArg = <<>> => queryRet[1] = [threw |-> FALSE, query |-> EmptyQuery]

\* C21 witness: a value with a second "=", whose rest is dropped.
C21_Witness ==
    /\ QueryReturned
    /\ queryArg = <<"a", "=", "4", "=", "a">>
    /\ queryRet[1] = [threw |-> FALSE, query |-> ("a" :> "4")]

\* C21 witness: the key a twice, the second time without "=".
C21_WitnessOverwrite ==
    /\ QueryReturned
    /\ queryArg = <<"a", "=", "4", "&", "a">>
    /\ queryRet[1] = [threw |-> FALSE, query |-> ("a" :> "")]

\* C21 witness: a pair with an empty key skipped, malformed value and all.
C21_WitnessSkipped ==
    /\ QueryReturned
    /\ queryArg = <<"=", "%", "&", "4">>
    /\ queryRet[1] = [threw |-> FALSE, query |-> ("4" :> "")]

(***************************************************************************)
(* parseBody                                                               *)
(***************************************************************************)
\* The text the stream has delivered.
BodyText == Str(BufferConcat(chunks))

\* The JSON texts that up to four of the chunks can spell, with what they
\* stand for.
JsonTexts ==
    ("1" :> JNum(1)) @@ ("11" :> JNum(11)) @@ ("111" :> JNum(111))
    @@ ("1111" :> JNum(1111)) @@ ("[]" :> JArr(<<>>))
    @@ ("[1]" :> JArr(<<JNum(1)>>)) @@ ("[11]" :> JArr(<<JNum(11)>>))
    @@ ("[111]" :> JArr(<<JNum(111)>>)) @@ ("[[]]" :> JArr(<<JArr(<<>>)>>))
    @@ ("[1,1]" :> JArr(<<JNum(1), JNum(1)>>))
    @@ ("[[1]]" :> JArr(<<JArr(<<JNum(1)>>)>>))

\* What the end of the stream gives for the text delivered.
Decoded ==
    IF BodyText = "" THEN Undefined
    ELSE IF BodyText \in DOMAIN JsonTexts THEN JsonTexts[BodyText]
    ELSE JStr(BodyText)

\* C22: the promise of parseBody is resolved, never rejected, as soon as the
\* stream ends or fails: with undefined for an error and for an empty buffer,
\* with the decoded value for a JSON text and with the text itself for any
\* other; an error after the end changes nothing.
C22_ParseBodyNeverFails ==
    /\ bodyStream = <<>> => bodyRet = <<>>
    /\ bodyStream \notin {<<>>, <<"none">>} =>
         /\ Len(bodyRet) = 1
         /\ bodyRet[1] # Rejected
         /\ bodyRet[1] = IF Head(bodyStream) = "end" THEN Decoded ELSE Undefined

\* C22 witness: a JSON text that came in two chunks, decoded.
C22_Witness ==
    /\ bodyStream = <<"end">>
    /\ chunks = << <<"[">>, <<"1", "]">> >>
    /\ bodyRet = << JArr(<<JNum(1)>>) >>

\* C22 witness: a text that is not JSON, handed on as it is; the error after
\* the end changed nothing.
C22_WitnessRaw ==
    /\ bodyStream = <<"end", "error">>
    /\ chunks = << <<"[">>, <<"1">>, <<",">> >>
    /\ bodyRet = << JStr("[1,") >>

\* C22 witness: the stream failed after a chunk.
C22_WitnessError ==
    /\ bodyStream = <<"error">>
    /\ chunks = << <<"1">> >>
    /\ bodyRet = << Undefined >>

-----------------------------------------------------------------------------
\* The listener's catch

\* handleRequest rejected for request i: an error left it outside its try.
HandleRequestRejected(i) == pc[i] \in {"rejected", "failed"}

\* C30: when handleRequest itself rejects (the query string of the request
\* cannot be percent-decoded), the listener's catch ends the response with
\* status 500 and the plain body 'Internal Server Error', no content type
\* set; it writes only to a response that is not ended, and handleRequest
\* itself has written nothing.
C30_ListenerCatch ==
    /\ [](\A i \in Ids :
            /\ pc[i] = "rejected" =>
                 /\ parseQueryString(req[i].search).threw
                 /\ res[i] = NewResponse
            /\ pc[i] = "failed" =>
                 /\ res[i].writableEnded
                 /\ res[i].statusCode = 500
                 /\ res[i].body = "Internal Server Error"
                 /\ res[i].contentType = NewResponse.contentType
                 /\ dispEnds[i] = 0
                 /\ trace[i] = <<>>)
    /\ [][\A i \in Ids :
            (HandleRequestRejected(i) /\ res'[i] # res[i]) =>
                /\ pc[i] = "rejected" /\ pc'[i] = "failed"
                /\ ~res[i].writableEnded]_vars

\* C30 witness: a request with a malformed query string, answered by the
\* listener.
C30_Witness ==
    \E i \in Ids : /\ pc[i] = "failed"
                   /\ req[i].search = <<"%">>
                   /\ res[i].writableEnded

-----------------------------------------------------------------------------
\* Requests with a query string and a body

\* The query strings: none, one pair, a malformed escape.
CtxSearches == {<<>>, <<"a", "=", "4">>, <<"%">>}

\* The bodies, as the chunks the stream delivers: none, the JSON text [1] in
\* two chunks, the text x.
CtxChunks == {<<>>, << <<"[">>, <<"1", "]">> >>, << <<"x">> >>}

CtxRequests ==
    [method : RouteMethods, path : RoutePaths, search : CtxSearches,
     chunks : CtxChunks, stream : {"end", "error"}]

InitCtx == InitFrom(RouteTrees, CtxRequests, {1})

SpecCtx == InitCtx /\ [][Next]_vars

\* What the chunks stand for when the stream ends.
ExpectedBody(cs) ==
    CASE cs = <<>> -> Undefined
      [] cs = << <<"[">>, <<"1", "]">> >> -> JArr(<<JNum(1)>>)
      [] cs = << <<"x">> >> -> JStr("x")

\* C24: for a matched request of any method handleRequest waits for the
\* body before the chain starts: while it waits nothing has been invoked and
\* there is no ctx; once anything is invoked ctx is built and ctx.body is the
\* decoded value of the stream (undefined for an empty or a failed one), and
\* it stays so; for a request without a route the body is never read.
C24_BodyBeforeChain ==
    /\ [](\A i \in Ids :
            /\ pc[i] = "body" =>
                 /\ matched[i].found
                 /\ trace[i] = <<>>
                 /\ ~ctx[i].built
            /\ trace[i] # <<>> => ctx[i].built
            /\ (Resolved(i) /\ matched[i].found /\ pc[i] # "body") => ctx[i].built
            /\ ctx[i].built =>
                 /\ matched[i].found
                 /\ ctx[i].body = IF req[i].stream = "error" THEN Undefined
                                  ELSE ExpectedBody(req[i].chunks)
            /\ (Resolved(i) /\ ~matched[i].found) =>
                 /\ pc[i] = "done"
                 /\ ~ctx[i].built)
    /\ [][\A i \in Ids :
            /\ ctx[i].built => ctx'[i] = ctx[i]
            /\ (pc[i] = "new" /\ pc'[i] # "new" /\ matched'[i].found)
                 => pc'[i] = "body"]_vars

\* C24 witness: a GET request with the body [1], its handler invoked with
\* ctx.body the array.
C24_Witness ==
    \E i \in Ids :
        /\ req[i].method = "GET"
        /\ req[i].stream = "end"
        /\ ctx[i].body = JArr(<<JNum(1)>>)
        /\ \E p \in DOMAIN trace[i] : trace[i][p].ev = "handler"

\* C24 witness: a request without a route and with a body, answered 404.
C24_WitnessNotFound ==
    \E i \in Ids :
        /\ pc[i] = "done" /\ ~matched[i].found
        /\ req[i].chunks # <<>>

\* C24 witness: a stream that failed after its chunks, ctx.body undefined in
\* the chain.
C24_WitnessError ==
    \E i \in Ids :
        /\ req[i].stream = "error" /\ req[i].chunks # <<>>
        /\ ctx[i].built /\ ctx[i].body = Undefined
        /\ trace[i] # <<>>

-----------------------------------------------------------------------------
\* Two requests in flight

\* Requests that meet every path of handleRequest on the trees of the
\* declarations: answered by a handler behind middlewares, denied by a
\* guard, failed, not found, rejected; one with a query string and a body.
TwoRequests ==
    { [method |-> "GET", path |-> <<"/", "u", "/", "m", "e">>, search |-> <<>>,
       chunks |-> <<>>, stream |-> "end"],
      [method |-> "POST", path |-> <<"/", "u", "/", "7">>, search |-> <<>>,
       chunks |-> << <<"x">> >>, stream |-> "end"],
      [method |-> "GET", path |-> <<"/", "a", "/", "7">>, search |-> <<"a", "=", "4">>,
       chunks |-> << <<"[">>, <<"1", "]">> >>, stream |-> "end"],
      [method |-> "GET", path |-> <<"/", "a">>, search |-> <<>>,
       chunks |-> <<>>, stream |-> "error"],
      [method |-> "POST", path |-> <<"/", "u", "/", "m", "e">>, search |-> <<>>,
       chunks |-> <<>>, stream |-> "end"],
      [method |-> "GET", path |-> <<"/", "u", "/", "7">>, search |-> <<>>,
       chunks |-> <<>>, stream |-> "end"],
      [method |-> "GET", path |-> <<"/", "z">>, search |-> <<>>,
       chunks |-> <<>>, stream |-> "error"],
      MalformedRequest }

InitTwo == InitFrom(RouteTrees, TwoRequests, {1, 2})

SpecTwo == InitTwo /\ [][Next]_vars

\* Everything handleRequest holds for request i.
Local(i) ==
    <<req[i], res[i], pc[i], matched[i], index[i], stack[i], result[i], thrown[i],
      dispEnds[i], trace[i], ctx[i]>>

\* The middleware invocations of request i.
Invocations(i) == {p \in DOMAIN trace[i] : trace[i][p].ev = "mw"}

\* handleRequest has returned or has been answered by the listener.
Over(i) == pc[i] \in {"done", "failed"}

\* C23: two requests interleaved at their suspension points do not
\* interfere. A step of one leaves everything of the other as it is; the
\* cursor of a request counts the middleware invocations of that request
\* and no others, and its ctx is built from its own request; and two equal
\* requests, however interleaved, are handled alike: at any moment the
\* invocations of one are a prefix of those of the other, and once both
\* are over they have the same invocations, context and response.
C23_NoInterference ==
    /\ [][\A i, j \in Ids :
            (i # j /\ Local(i)' # Local(i)) => Local(j)' = Local(j)]_vars
    /\ [](\A i \in Ids :
            /\ index[i] = Cardinality(Invocations(i))
            /\ ctx[i].built =>
                 /\ ctx[i].path = req[i].path
                 /\ ctx[i].method = req[i].method
                 /\ ctx[i].params = matched[i].params
                 /\ ctx[i].query = parseQueryString(req[i].search).query
                 /\ ctx[i].body = parseBody(req[i]))
    /\ [](\A i, j \in Ids :
            req[i] = req[j] =>
                /\ IsPrefix(trace[i], trace[j]) \/ IsPrefix(trace[j], trace[i])
                /\ (Over(i) /\ Over(j)) =>
                     /\ trace[i] = trace[j]
                     /\ ctx[i] = ctx[j]
                     /\ res[i] = res[j]
                     /\ matched[i] = matched[j])

\* C23 witness: two different requests both in the middle of their chains,
\* each with its own cursor.
C23_Witness ==
    /\ req[1] # req[2]
    /\ pc[1] = "chain" /\ pc[2] = "chain"
    /\ index[1] >= 1 /\ index[2] >= 1
    /\ ctx[1] # ctx[2]

\* C23 witness: two equal requests over, the first overtaken by the second
\* on the way.
C23_WitnessTwins ==
    /\ req[1] = req[2]
    /\ Over(1) /\ Over(2)
    /\ Len(trace[1]) >= 3
    /\ res[1].writableEnded

-----------------------------------------------------------------------------
\* The tree is read only

\* What findRoute gives for request i on the tree as it is now.
ResolveNow(i) ==
    findRoute(tree.children, req[i].method, req[i].path, <<>>, tree.middlewares)

\* C26: no step of request handling changes the tree, which stays the tree
\* rendered from the declarations, so that what was resolved for a request
\* is what resolving its method and path gives at any later time, and two
\* requests with the same method and path get the same endpoint, parameters
\* and middleware list.
C26_TreeReadOnly ==
    /\ [][tree' = tree]_vars
    /\ [](tree \in RouteTrees)
    /\ [](\A i \in Ids : Resolved(i) => matched[i] = ResolveNow(i))
    /\ [](\A i, j \in Ids :
            (/\ Resolved(i) /\ Resolved(j)
             /\ req[i].method = req[j].method
             /\ req[i].path = req[j].path) => matched[i] = matched[j])

\* C26 witness: two requests for the same endpoint behind middlewares of a
\* group, both over, resolved alike.
C26_Witness ==
    /\ Over(1) /\ Over(2)
    /\ req[1].method = req[2].method /\ req[1].path = req[2].path
    /\ matched[1].found /\ matched[2].found
    /\ Len(matched[1].middlewares) > Len(tree.middlewares)
    /\ trace[2] # <<>>

-----------------------------------------------------------------------------
\* Termination

\* A group whose endpoint sits behind a middleware that never settles, next
\* to endpoints that answer, answer nothing and fail.
AppStall ==
    ServerEl(<<
      MiddlewareEl("pass"),
      RouteEl(<<"/", "a">>, <<
        GetEl(<<>>, "retUndef"),
        PostEl(<<>>, "throwErr"),
        RouteEl(<<"/", "s">>, <<
          MiddlewareEl("stall"),
          GetEl(<<>>, "retObj") >>) >>),
      GetEl(<<"/", "b">>, "endRetObj") >>)

LiveTrees == RouteTrees \cup {Render(AppStall)}

LivePaths ==
    { <<"/", "a">>, <<"/", "a", "/", "s">>, <<"/", "b">>, <<"/", "z">>,
      <<"/", "u", "/", "m", "e">>, <<"/", "u", "/", "7">> }

\* Requests whose stream ends, fails or does neither.
LiveRequests ==
    [method : {"GET", "POST"}, path : LivePaths, search : {<<>>, <<"%">>},
     chunks : {<<>>, << <<"x">> >>}, stream : {"end", "error", "open"}]

LiveIds == {1}

InitLive == InitFrom(LiveTrees, LiveRequests, LiveIds)

\* What runs for request i once handleRequest has been called: the
\* continuations of its awaits and the catch of the listener.
Continuation(i) ==
    \/ ParseBodySettles(i)
    \/ next(i)
    \/ MiddlewareStep(i)
    \/ MiddlewareReturn(i)
    \/ InvokeHandler(i)
    \/ HandlerSettles(i)
    \/ Finalize(i)
    \/ Catch(i)
    \/ ListenerCatch(i)

\* A continuation that is ready runs: the event loop starves none. The
\* stream of a request delivers its end or its error when it has one. When
\* the server calls handleRequest is up to the server.
SpecLive ==
    /\ InitLive
    /\ [][Next]_vars
    /\ \A i \in LiveIds : WF_vars(Continuation(i))

\* handleRequest awaits the body of a stream that neither ends nor fails.
AwaitsOpenStream(i) == pc[i] = "body" /\ req[i].stream = "open"

\* handleRequest awaits a middleware that never settles.
Stalled(i) == pc[i] = "chain" /\ stack[i] # <<>> /\ TopOp(i) = "wait"

\* Request i is held by its stream or by a middleware.
Held(i) == AwaitsOpenStream(i) \/ Stalled(i)

\* C25: a request passed to handleRequest that is never held by a stream
\* that stays open or by a middleware that does not settle is eventually
\* over with its response ended; a request that is held stays held for
\* ever, nothing ending its response or completing handleRequest in its
\* place.
C25_Termination ==
    /\ \A i \in LiveIds :
         (pc[i] # "new") ~> (Held(i) \/ (Over(i) /\ res[i].writableEnded))
    /\ [](\A i \in LiveIds : Held(i) => (~Over(i) /\ ~res[i].writableEnded))
    /\ [][\A i \in LiveIds : Held(i) => (Held(i)' /\ Local(i)' = Local(i))]_vars

\* C25 witness: a request whose stream failed, its handler run behind a
\* middleware, handleRequest returned and the response ended.
C25_Witness ==
    \E i \in LiveIds :
        /\ pc[i] = "done" /\ res[i].writableEnded
        /\ req[i].stream = "error"
        /\ \E p \in DOMAIN trace[i] : trace[i][p].ev = "handlerDone"
        /\ \E p \in DOMAIN trace[i] : trace[i][p].ev = "return"

\* C25 witness: a request held by a middleware that never settles.
C25_WitnessStalled ==
    \E i \in LiveIds : Stalled(i) /\ ~res[i].writableEnded

\* C25 witness: a request held by its stream.
C25_WitnessOpen ==
    \E i \in LiveIds : AwaitsOpenStream(i) /\ matched[i].found

====
